---- MODULE Spec2Model ----
(***************************************************************************)
(* A model of the agent's response interpretation and orchestration        *)
(* pipeline: the conversation store (app/services/context_manager.py),     *)
(* the wrapping normalisation of the generation connector                  *)
(* (app/services/llm_connector.py), the response interpreter and the       *)
(* per-request orchestrator (app/agent.py).                                *)
(*                                                                         *)
(* Text is a sequence of tokens.  A token is one of the characters the     *)
(* code looks at (braces, colon, comma, space, the single quote "SQ"), a   *)
(* double quote carrying its level of backslash escaping ("Q0" is a bare   *)
(* quote, "Q1" a quote behind one backslash, "Q2" behind three, ...), the  *)
(* code fence "FENCE", or a word: a run of characters none of which the    *)
(* code looks at.  Python values (None, str, int, dict)                    *)
(* are tagged records.  Timestamps of messages and tool calls are left     *)
(* out: no operation reads them.                                           *)
(***************************************************************************)
EXTENDS Integers, Sequences, FiniteSets, TLC

(***************************************************************************)
(* Python / JSON values                                                    *)
(***************************************************************************)
\* The one element of a one-element set: with S == {F(x) : x \in {e}} it is F(e),
\* e being evaluated once.
The(S) == CHOOSE x \in S : TRUE

None == [k |-> "null"]
Str(s) == [k |-> "str", s |-> s]
Num(n) == [k |-> "num", n |-> n]
Dict(m) == [k |-> "obj", m |-> m]

\* A dictionary key: the text of a one-word string.
Key(w) == <<w>>

EmptyDict == Dict(<<>>)

IsStr(v) == v.k = "str"
IsDict(v) == v.k = "obj"

\* Python truthiness, as tested by (if tool_call) and (not tool_call).
Truthy(v) ==
    CASE v.k = "null" -> FALSE
      [] v.k = "str" -> v.s # <<>>
      [] v.k = "num" -> v.n # 0
      [] v.k = "obj" -> DOMAIN v.m # {}

\* dict.get(key, default)
DictGet(m, key, default) == IF key \in DOMAIN m THEN m[key] ELSE default

\* The dictionary m with key bound to v (a later duplicate key wins).
DictPut(m, key, v) ==
    [x \in DOMAIN m \cup {key} |-> IF x = key THEN v ELSE m[x]]

(***************************************************************************)
(* Text                                                                    *)
(***************************************************************************)
\* The three-backtick code fence.
FENCE == "FENCE"
\* The single quote character.
SQUOTE == "SQ"

RECURSIVE LStrip(_)
LStrip(t) == IF t # <<>> /\ Head(t) = " " THEN LStrip(Tail(t)) ELSE t

RECURSIVE RStrip(_)
RStrip(t) ==
    IF t # <<>> /\ t[Len(t)] = " " THEN RStrip(SubSeq(t, 1, Len(t) - 1)) ELSE t

\* str.strip()
Strip(t) == RStrip(LStrip(t))

StartsWith(t, tok) == t # <<>> /\ t[1] = tok
EndsWith(t, tok) == t # <<>> /\ t[Len(t)] = tok
Contains(t, tok) == \E i \in 1..Len(t) : t[i] = tok

\* str.find from position i and str.rfind; 0 when the token is absent.
FindFrom(t, i, tok) ==
    IF \E j \in i..Len(t) : t[j] = tok
    THEN CHOOSE j \in i..Len(t) : t[j] = tok /\ \A h \in i..(j - 1) : t[h] # tok
    ELSE 0

RFind(t, tok) ==
    IF Contains(t, tok)
    THEN CHOOSE j \in 1..Len(t) : t[j] = tok /\ \A h \in (j + 1)..Len(t) : t[h] # tok
    ELSE 0

\* One more, one fewer level of backslash escaping on a quote.
Escape(tok) ==
    CASE tok = "Q0" -> "Q1"
      [] tok = "Q1" -> "Q2"
      [] tok = "Q2" -> "Q3"
      [] tok = "Q3" -> "Q4"
      [] OTHER -> tok

Unescape(tok) ==
    CASE tok = "Q1" -> "Q0"
      [] tok = "Q2" -> "Q1"
      [] tok = "Q3" -> "Q2"
      [] tok = "Q4" -> "Q3"
      [] OTHER -> tok

EscapeText(t) == [i \in 1..Len(t) |-> Escape(t[i])]
UnescapeText(t) == [i \in 1..Len(t) |-> Unescape(t[i])]

\* potential_json.replace: every single quote becomes a bare double quote.
ReplaceSingleQuotes(t) == [i \in 1..Len(t) |-> IF t[i] = SQUOTE THEN "Q0" ELSE t[i]]

OccursAt(t, sub, i) ==
    /\ i + Len(sub) - 1 <= Len(t)
    /\ \A h \in 1..Len(sub) : t[i + h - 1] = sub[h]

\* The first occurrence of sub in t at or after position i; 0 when there is none.
FindSubFrom(t, sub, i) ==
    IF \E j \in i..Len(t) : OccursAt(t, sub, j)
    THEN CHOOSE j \in i..Len(t) :
             OccursAt(t, sub, j) /\ \A h \in i..(j - 1) : ~OccursAt(t, sub, h)
    ELSE 0

\* str.replace(sub, ""): every non-overlapping occurrence, left to right.
RECURSIVE RemoveAllFrom(_, _, _)
RemoveAllFrom(t, sub, i) ==
    IF sub = <<>> \/ FindSubFrom(t, sub, i) = 0 THEN SubSeq(t, i, Len(t))
    ELSE SubSeq(t, i, FindSubFrom(t, sub, i) - 1)
             \o RemoveAllFrom(t, sub, FindSubFrom(t, sub, i) + Len(sub))

RemoveAll(t, sub) == RemoveAllFrom(t, sub, 1)

(***************************************************************************)
(* json.dumps and json.loads                                               *)
(***************************************************************************)
\* json.dumps of a str
JsonDumpsStr(t) == <<"Q0">> \o EscapeText(t) \o <<"Q0">>

\* json.dumps({"response": response_text, "tool_call": None})
JsonDumpsWrapped(response_text) ==
    <<"{", "Q0", "response", "Q0", ":", " ">> \o JsonDumpsStr(response_text)
        \o <<",", " ", "Q0", "tool_call", "Q0", ":", " ", "null", "}">>

NumberTokens == {"0", "42"}
NumberOf(tok) == IF tok = "0" THEN 0 ELSE 42

ParseFail == [ok |-> FALSE]
Parsed(v, p) == [ok |-> TRUE, v |-> v, p |-> p]

RECURSIVE SkipWs(_, _)
SkipWs(t, i) == IF i <= Len(t) /\ t[i] = " " THEN SkipWs(t, i + 1) ELSE i

\* A string literal at position i: up to the next bare quote.
ParseStringAt(t, i) ==
    IF i <= Len(t) /\ t[i] = "Q0"
    THEN LET j == FindFrom(t, i + 1, "Q0")
         IN  IF j = 0 THEN ParseFail
             ELSE Parsed(Str(UnescapeText(SubSeq(t, i + 1, j - 1))), j + 1)
    ELSE ParseFail

\* The position after the colon of a member whose key literal starts at
\* position i, whitespace skipped; 0 when there is no key or no colon.
ValueStart(t, i) ==
    IF ParseStringAt(t, i).ok
       /\ SkipWs(t, ParseStringAt(t, i).p) <= Len(t)
       /\ t[SkipWs(t, ParseStringAt(t, i).p)] = ":"
    THEN SkipWs(t, SkipWs(t, ParseStringAt(t, i).p) + 1)
    ELSE 0

\* The token that follows a value ending before position p, whitespace
\* skipped; "" at the end of the text.
TokenAfter(t, p) == IF SkipWs(t, p) <= Len(t) THEN t[SkipWs(t, p)] ELSE ""

RECURSIVE ParseValueAt(_, _), ParseMembersAt(_, _, _), MemberAfterValue(_, _, _, _)
\* A JSON value at position i.
ParseValueAt(t, i) ==
    IF i > Len(t) THEN ParseFail
    ELSE IF t[i] = "Q0" THEN ParseStringAt(t, i)
    ELSE IF t[i] = "null" THEN Parsed(None, i + 1)
    ELSE IF t[i] \in NumberTokens THEN Parsed(Num(NumberOf(t[i])), i + 1)
    ELSE IF t[i] = "{"
         THEN IF SkipWs(t, i + 1) <= Len(t) /\ t[SkipWs(t, i + 1)] = "}"
              THEN Parsed(EmptyDict, SkipWs(t, i + 1) + 1)
              ELSE ParseMembersAt(t, SkipWs(t, i + 1), <<>>)
    ELSE ParseFail

\* The members of an object from position i on, m holding those already read:
\* a key, a colon, a value, then a comma and more members or the closing brace.
ParseMembersAt(t, i, m) ==
    IF ValueStart(t, i) = 0 THEN ParseFail
    ELSE The({MemberAfterValue(t, ParseStringAt(t, i).v.s, val, m) :
                 val \in {ParseValueAt(t, ValueStart(t, i))}})

MemberAfterValue(t, name, val, m) ==
    IF val.ok /\ TokenAfter(t, val.p) = ","
    THEN ParseMembersAt(t, SkipWs(t, SkipWs(t, val.p) + 1), DictPut(m, name, val.v))
    ELSE IF val.ok /\ TokenAfter(t, val.p) = "}"
    THEN Parsed(Dict(DictPut(m, name, val.v)), SkipWs(t, val.p) + 1)
    ELSE ParseFail

\* json.loads: [ok |-> FALSE] stands for JSONDecodeError.
JsonLoadsParsed(t, r) ==
    IF r.ok /\ SkipWs(t, r.p) = Len(t) + 1 THEN [ok |-> TRUE, v |-> r.v]
    ELSE ParseFail

JsonLoads(t) == The({JsonLoadsParsed(t, r) : r \in {ParseValueAt(t, SkipWs(t, 1))}})

(***************************************************************************)
(* OllamaConnector.generate_response on the body of a reply                *)
(***************************************************************************)
\* The first brace of either kind at or after position j; 0 when there is none.
NextBrace(text, j) ==
    IF \E b \in j..Len(text) : text[b] \in {"{", "}"}
    THEN CHOOSE b \in j..Len(text) :
             text[b] \in {"{", "}"} /\ \A h \in j..(b - 1) : text[h] \notin {"{", "}"}
    ELSE 0

\* The response returned when nothing could be read from the body: a fixed
\* apology, and the message of the JSONDecodeError as "error".
ApologyResponse ==
    Dict(DictPut(DictPut(<<>>, Key("response"), Str(<<"I", SQUOTE, "m", " ", "sorry">>)),
                 Key("error"), Str(<<"JSONDecodeError">>)))

\* A scan that differs from the source's: the object ends at the first closing
\* brace.
FirstClosingBrace(content, j, depth) == FindFrom(content, j, "}")

\* The loop over content[start:]: the position of the brace at which depth
\* comes back to 0, scanning from j at the depth given; 0 when the loop ends
\* without it, end staying unbound.
RECURSIVE ClosingBrace(_, _, _)
ClosingBrace(content, j, depth) ==
    IF NextBrace(content, j) = 0 THEN 0
    ELSE IF content[NextBrace(content, j)] = "{"
    THEN ClosingBrace(content, NextBrace(content, j) + 1, depth + 1)
    ELSE IF depth = 1 THEN NextBrace(content, j)
    ELSE ClosingBrace(content, NextBrace(content, j) + 1, depth - 1)

\* json.loads of content[start:end]; any exception, the unbound end included,
\* leaves the apology.
ExtractedObject(content, start, end) ==
    IF end = 0 THEN ApologyResponse
    ELSE The({IF r.ok THEN r.v ELSE ApologyResponse :
                 r \in {JsonLoads(SubSeq(content, start, end))}})

\* The handler of the JSONDecodeError of response.json().
ExtractFirstObject(content) ==
    IF Contains(content, "{") /\ Contains(content, "}")
    THEN The({ExtractedObject(content, start, ClosingBrace(content, start, 0)) :
                 start \in {FindFrom(content, 1, "{")}})
    ELSE ApologyResponse

\* generate_response once the reply has a success status: what it returns for
\* the body, and whether an exception left it.
generate_response(content) ==
    [raised |-> FALSE,
     ret |-> The({IF r.ok THEN r.v ELSE ExtractFirstObject(content) :
                     r \in {JsonLoads(content)}})]

(***************************************************************************)
(* OllamaConnector.generate_with_tool_context: the wrapping normalisation  *)
(***************************************************************************)
\* A generate_with_tool_context that differs from the source's: the text is
\* handed on as it is.
generate_with_tool_context_as_is(response_text) == response_text

\* A generate_with_tool_context that differs from the source's: a text is
\* wrapped unless it starts with a brace.
generate_with_tool_context_by_start(response_text) ==
    IF ~StartsWith(response_text, "{")
    THEN JsonDumpsWrapped(response_text)
    ELSE response_text

\* The text handed on for a generation result whose "response" is response_text.
generate_with_tool_context(response_text) ==
    IF ~(StartsWith(response_text, "{") /\ EndsWith(response_text, "}"))
    THEN JsonDumpsWrapped(response_text)
    ELSE response_text

(***************************************************************************)
(* Agent._parse_llm_response                                               *)
(***************************************************************************)
\* The outcome of a call: a returned dictionary, or an exception that leaves it.
\* How a call ended, and the strategies it attempted, in order.
Raised == [raised |-> TRUE, tried |-> <<>>]
Returned(m) == [raised |-> FALSE, ret |-> m, tried |-> <<>>]
\* Strategy n was attempted, and the call went on to outcome.
Tried(n, outcome) == [outcome EXCEPT !.tried = <<n>> \o @]

\* The result with the text as it stands, not stripped.
TextAndToolCallUnstripped(text, tool_call) ==
    DictPut(DictPut(<<>>, Key("text"), Str(text)), Key("tool_call"), tool_call)

\* The dictionary {"text": ..., "tool_call": ...} of the two return statements.
TextAndToolCall(text, tool_call) ==
    DictPut(DictPut(<<>>, Key("text"), Str(Strip(text))), Key("tool_call"), tool_call)

\* re.search of the fenced-block pattern: the span of group 1, or no match.
\* f1 is the first fence, a the position after it and its json tag.
FenceGroup(text, a, f2) ==
    IF f2 = 0 THEN [found |-> FALSE]
    ELSE [found |-> TRUE, group1 |-> Strip(SubSeq(text, a, f2 - 1))]

FenceFrom(text, f1) ==
    IF f1 = 0 THEN [found |-> FALSE]
    ELSE The({FenceGroup(text, a, FindFrom(text, a, FENCE)) :
                 a \in {IF f1 + 1 <= Len(text) /\ text[f1 + 1] = "json"
                        THEN f1 + 2 ELSE f1 + 1}})

FenceSearch(text) == The({FenceFrom(text, f1) : f1 \in {FindFrom(text, 1, FENCE)}})

\* The end of the match of the brace pattern whose opening brace is before j
\* (0: no match there).  depth is 1 in the outer object, 2 in a nested one.
\* Tokens that are no braces match at either depth.
RECURSIVE BraceMatchEnd(_, _, _)
BraceMatchEnd(text, j, depth) ==
    IF NextBrace(text, j) = 0 THEN 0
    ELSE IF text[NextBrace(text, j)] = "}"
    THEN (IF depth = 1 THEN NextBrace(text, j)
          ELSE BraceMatchEnd(text, NextBrace(text, j) + 1, 1))
    ELSE (IF depth = 1 THEN BraceMatchEnd(text, NextBrace(text, j) + 1, 2) ELSE 0)

\* re.finditer(json_pattern, text): the matched substrings, left to right.  A
\* match starts at an opening brace; the search goes on after a match, or at
\* the next position when there is none.
RECURSIVE BraceMatches(_, _), BraceMatchesAt(_, _, _)
BraceMatchesAt(text, i, e) ==
    IF e # 0 THEN <<SubSeq(text, i, e)>> \o BraceMatches(text, e + 1)
    ELSE BraceMatches(text, i + 1)

BraceMatches(text, i) ==
    IF FindFrom(text, i, "{") = 0 THEN <<>>
    ELSE The({BraceMatchesAt(text, b, BraceMatchEnd(text, b + 1, 1)) :
                 b \in {FindFrom(text, i, "{")}})

\* What a candidate that parsed and has a tool_call key sets: tool_call from
\* it, text from its "response" if it has one, else the text without the
\* candidate.  text becomes a Python value: "response" need not be a string.
Selected(parsed_json, text_without) ==
    [text |-> IF Key("response") \in DOMAIN parsed_json.m
              THEN parsed_json.m[Key("response")]
              ELSE Str(text_without),
     tool_call |-> parsed_json.m[Key("tool_call")]]

IsCandidate(parsed_json) ==
    parsed_json.ok /\ IsDict(parsed_json.v) /\ Key("tool_call") \in DOMAIN parsed_json.v.m

\* The for loop of strategy 3 over the matches from the n-th on: the values of
\* (text, tool_call) it leaves.
RECURSIVE BraceScan(_, _, _), BraceScanAt(_, _, _, _)
BraceScanAt(text, matches, n, parsed_json) ==
    IF IsCandidate(parsed_json)
    THEN Selected(parsed_json.v, RemoveAll(text, matches[n]))
    ELSE BraceScan(text, matches, n + 1)

BraceScan(text, matches, n) ==
    IF n > Len(matches) THEN [text |-> Str(text), tool_call |-> None]
    ELSE The({BraceScanAt(text, matches, n, parsed_json) :
                 parsed_json \in {JsonLoads(matches[n])}})

\* Strategy 4 on the text between the first opening and the last closing brace.
LastResortAt(text, tool_call, json_start, json_end, parsed_json) ==
    IF IsCandidate(parsed_json)
    THEN Selected(parsed_json.v,
                  SubSeq(text, 1, json_start - 1) \o SubSeq(text, json_end + 1, Len(text)))
    ELSE [text |-> Str(text), tool_call |-> tool_call]

\* The test of strategy 4 with "not tool_call" left out.
LastResortWantedWithBraces(text, tool_call) ==
    Contains(text, "{") /\ Contains(text, "}")

\* if not tool_call and "{" in text and "}" in text
LastResortWanted(text, tool_call) ==
    ~Truthy(tool_call) /\ Contains(text, "{") /\ Contains(text, "}")

\* Strategy 4 on the (text, tool_call) strategy 3 left, text being a string.
LastResort(text, tool_call) ==
    IF LastResortWanted(text, tool_call)
    THEN The({LastResortAt(text, tool_call, json_start, json_end, parsed_json) :
                 json_start \in {FindFrom(text, 1, "{")},
                 json_end \in {RFind(text, "}")},
                 parsed_json \in {JsonLoads(ReplaceSingleQuotes(
                                     SubSeq(text, FindFrom(text, 1, "{"), RFind(text, "}"))))}})
    ELSE [text |-> Str(text), tool_call |-> tool_call]

\* The final return.  text.strip() raises on a text that is no string.
ReturnTextAndToolCall(s4) ==
    IF ~IsStr(s4.text) THEN Raised
    ELSE Returned(TextAndToolCall(s4.text.s, s4.tool_call))

\* Strategy 4 after strategy 3.  A text that is no string raises at the tests
\* on it or at text.strip().
AfterBraceScan(s3) ==
    IF ~IsStr(s3.text) THEN Raised
    ELSE IF LastResortWanted(s3.text.s, s3.tool_call)
    THEN Tried(4, The({ReturnTextAndToolCall(s4) :
                          s4 \in {LastResort(s3.text.s, s3.tool_call)}}))
    ELSE ReturnTextAndToolCall(s3)

\* Strategies 3 and 4 and the final return.
ParseByScan(text) ==
    Tried(3, The({AfterBraceScan(s3) : s3 \in {BraceScan(text, BraceMatches(text, 1), 1)}}))

\* Strategy 2 on the fenced block found.  dict(**data) raises TypeError, which
\* the except clause does not name, when data is no dictionary.
FenceLoaded(text, data) ==
    IF data.ok
    THEN (IF IsDict(data.v) THEN Returned(data.v.m) ELSE Raised)
    ELSE ParseByScan(text)

\* Strategy 2 left out: the fenced block found is not looked at.
ParseByFenceSkipped(text, match) == ParseByScan(text)

ParseByFenceMatch(text, match) ==
    IF match.found
    THEN The({FenceLoaded(text, data) : data \in {JsonLoads(match.group1)}})
    ELSE ParseByScan(text)

\* Strategy 2, then the rest.
ParseByFence(text) ==
    Tried(2, The({ParseByFenceMatch(text, match) : match \in {FenceSearch(text)}}))

\* Strategy 1 left out: the whole text parsed is not looked at.
WholeTextSkipped(text, parsed) == ParseByFence(text)

\* Strategy 1 on the whole text parsed.  text.strip() raises on a "response"
\* that is no string.
WholeTextLoaded(text, parsed) ==
    IF parsed.ok /\ IsDict(parsed.v)
    THEN IF IsStr(DictGet(parsed.v.m, Key("response"), Str(text)))
         THEN Returned(TextAndToolCall(DictGet(parsed.v.m, Key("response"), Str(text)).s,
                                       DictGet(parsed.v.m, Key("tool_call"), None)))
         ELSE Raised
    ELSE ParseByFence(text)

\* _parse_llm_response on a response whose "response" field is text.
parse_llm_response(text) ==
    Tried(1, The({WholeTextLoaded(text, parsed) : parsed \in {JsonLoads(text)}}))

(***************************************************************************)
(* Bounds of the model                                                     *)
(***************************************************************************)
\* ContextManager(max_history_length): the cap under which the store is run.
max_history_length == 4
\* The number of process_input requests, which may all be in flight at once.
NumRequests == 2
\* The number of direct calls of the store's own operations.
MaxStoreOps == 1

Reqs == 1..NumRequests
Ids == {"c1", "c2"}
\* process_input called without a conversation id.
NoId == "none"

(***************************************************************************)
(* ContextManager: the conversation store                                  *)
(***************************************************************************)
Message(role, content) == [role |-> role, content |-> content]
ToolCall(tool_name, parameters, result, error) ==
    [tool_name |-> tool_name, parameters |-> parameters, result |-> result,
     error |-> error]
ConversationContext == [messages |-> <<>>, tool_calls |-> <<>>]

\* ContextManager.__init__: no conversation.
EmptyStore == [x \in {} |-> ConversationContext]

\* A store operation's outcome: the conversations it leaves, and whether it
\* raised (pydantic's ValidationError) after what it had already done.
Stored(convs) == [raised |-> FALSE, conversations |-> convs]
StoreRaised(convs) == [raised |-> TRUE, conversations |-> convs]

\* A create that keeps a conversation that is there already.
create_conversation_if_absent(convs, conversation_id) ==
    [x \in DOMAIN convs \cup {conversation_id} |->
        IF x \in DOMAIN convs THEN convs[x] ELSE ConversationContext]

create_conversation(convs, conversation_id) ==
    [x \in DOMAIN convs \cup {conversation_id} |->
        IF x = conversation_id THEN ConversationContext ELSE convs[x]]

\* Two trims that differ from the source's: one that waits for a second
\* message over the cap, one that takes the newest message off.
TrimHistoryLate(messages) ==
    IF Len(messages) > max_history_length + 1 THEN Tail(messages) ELSE messages
TrimHistoryNewest(messages) ==
    IF Len(messages) > max_history_length
    THEN SubSeq(messages, 1, Len(messages) - 1) ELSE messages

\* The trim of add_message: one message off the front when over the cap.
TrimHistory(messages) ==
    IF Len(messages) > max_history_length THEN Tail(messages) ELSE messages

\* An add_message that differs from the source's: nothing is appended for an
\* id that has no conversation.
add_message_if_present(convs, conversation_id, role, content) ==
    IF conversation_id \notin DOMAIN convs THEN Stored(convs)
    ELSE IF ~IsStr(content) THEN StoreRaised(convs)
    ELSE Stored([convs EXCEPT ![conversation_id].messages =
                    TrimHistory(Append(@, Message(role, content.s)))])

\* An add_message that differs from the source's: one history is shared, the
\* message is appended to every conversation.
add_message_shared(convs, conversation_id, role, content) ==
    LET c1 == IF conversation_id \notin DOMAIN convs
              THEN create_conversation(convs, conversation_id) ELSE convs
    IN  IF ~IsStr(content) THEN StoreRaised(c1)
        ELSE Stored([x \in DOMAIN c1 |->
                        [c1[x] EXCEPT !.messages =
                            TrimHistory(Append(@, Message(role, content.s)))]])

\* content is a Python value; Message(role, content) wants a str.
add_message(convs, conversation_id, role, content) ==
    LET c1 == IF conversation_id \notin DOMAIN convs
              THEN create_conversation(convs, conversation_id) ELSE convs
    IN  IF ~IsStr(content) THEN StoreRaised(c1)
        ELSE Stored([c1 EXCEPT ![conversation_id].messages =
                        TrimHistory(Append(@, Message(role, content.s)))])

\* An add_tool_call that differs from the source's: a record of the same tool
\* still waiting for its outcome is completed in place.
add_tool_call_in_place(convs, conversation_id, tool_name, parameters, result, error) ==
    LET c1 == IF conversation_id \notin DOMAIN convs
              THEN create_conversation(convs, conversation_id) ELSE convs
        log == c1[conversation_id].tool_calls
    IN  IF ~IsStr(tool_name) \/ ~IsDict(parameters) \/ ~(IsStr(error) \/ error = None)
        THEN StoreRaised(c1)
        ELSE IF log # <<>> /\ log[Len(log)] = ToolCall(tool_name.s, parameters, None, None)
             THEN Stored([c1 EXCEPT ![conversation_id].tool_calls[Len(log)] =
                             ToolCall(tool_name.s, parameters, result, error)])
        ELSE Stored([c1 EXCEPT ![conversation_id].tool_calls =
                        Append(@, ToolCall(tool_name.s, parameters, result, error))])

\* tool_name, parameters, result and error are Python values; ToolCall wants a
\* str, a dict, anything, and a str or None.
add_tool_call(convs, conversation_id, tool_name, parameters, result, error) ==
    LET c1 == IF conversation_id \notin DOMAIN convs
              THEN create_conversation(convs, conversation_id) ELSE convs
    IN  IF ~IsStr(tool_name) \/ ~IsDict(parameters) \/ ~(IsStr(error) \/ error = None)
        THEN StoreRaised(c1)
        ELSE Stored([c1 EXCEPT ![conversation_id].tool_calls =
                        Append(@, ToolCall(tool_name.s, parameters, result, error))])

\* A clear that creates the conversation when there is none.
clear_conversation_creating(convs, conversation_id) ==
    [x \in DOMAIN convs \cup {conversation_id} |->
        IF x = conversation_id THEN ConversationContext ELSE convs[x]]

clear_conversation(convs, conversation_id) ==
    IF conversation_id \in DOMAIN convs
    THEN [convs EXCEPT ![conversation_id] = ConversationContext]
    ELSE convs

\* A delete that takes every conversation with it.
delete_conversation_all(convs, conversation_id) ==
    IF conversation_id \in DOMAIN convs THEN EmptyStore ELSE convs

delete_conversation(convs, conversation_id) ==
    IF conversation_id \in DOMAIN convs
    THEN [x \in DOMAIN convs \ {conversation_id} |-> convs[x]]
    ELSE convs

\* get_tool_context's max_tools: the tool calls the tool context tells of.
max_tools == 5

\* get_tool_context: the last max_tools tool calls of the conversation, none
\* if there is no conversation.  The string is rendered from them.
get_tool_context(convs, conversation_id) ==
    IF conversation_id \notin DOMAIN convs THEN <<>>
    ELSE LET tool_calls == convs[conversation_id].tool_calls
         IN  IF Len(tool_calls) > max_tools
             THEN SubSeq(tool_calls, Len(tool_calls) - max_tools + 1, Len(tool_calls))
             ELSE tool_calls

\* A get_full_context that differs from the source's: the user message is
\* appended a second time before the history is read.
get_full_context_twice(convs, conversation_id, user_input) ==
    LET added == add_message(convs, conversation_id, "user", Str(user_input))
        again == add_message(added.conversations, conversation_id, "user", Str(user_input))
    IN  [conversations |-> again.conversations,
         context |-> [conversation_history |->
                          again.conversations[conversation_id].messages,
                      tool_context |-> get_tool_context(again.conversations, conversation_id),
                      current_input |-> user_input]]

\* A get_full_context that differs from the source's: the history is read, then
\* the user message is appended.
get_full_context_reading_first(convs, conversation_id, user_input) ==
    LET c1 == IF conversation_id \notin DOMAIN convs
              THEN create_conversation(convs, conversation_id) ELSE convs
        added == add_message(c1, conversation_id, "user", Str(user_input))
    IN  [conversations |-> added.conversations,
         context |-> [conversation_history |-> c1[conversation_id].messages,
                      tool_context |-> get_tool_context(added.conversations, conversation_id),
                      current_input |-> user_input]]

\* get_full_context: the user message is appended, then the history is read.
\* context stands for the returned dictionary: conversation_history is the
\* messages the history string is rendered from, tool_context the tool calls
\* the system message tells of.
get_full_context(convs, conversation_id, user_input) ==
    LET c1 == IF conversation_id \notin DOMAIN convs
              THEN create_conversation(convs, conversation_id) ELSE convs
        added == add_message(c1, conversation_id, "user", Str(user_input))
    IN  [conversations |-> added.conversations,
         context |-> [conversation_history |->
                          added.conversations[conversation_id].messages,
                      tool_context |-> get_tool_context(added.conversations, conversation_id),
                      current_input |-> user_input]]

(***************************************************************************)
(* What the collaborators may send                                         *)
(***************************************************************************)
JStr(w) == <<"Q0", w, "Q0">>
JMember(w, value) == JStr(w) \o <<":", " ">> \o value
JObject2(m1, m2) == <<"{">> \o m1 \o <<",", " ">> \o m2 \o <<"}">>

FormatTextCall ==
    JObject2(JMember("name", JStr("format_text")),
             JMember("parameters", <<"{">> \o JMember("text", JStr("hello")) \o <<"}">>))

CountWordsCall ==
    JObject2(JMember("name", JStr("count_words")),
             JMember("parameters", <<"{">> \o JMember("text", JStr("hello")) \o <<"}">>))

\* Plain unstructured text with no braces, with and without surrounding space.
PlainText == <<"The", " ", "answer">>
PaddedText == <<" ", "Sure", " ">>
\* {"response": "ok", "tool_call": null}
NoToolJson == JObject2(JMember("response", JStr("ok")), JMember("tool_call", <<"null">>))
\* {"response": "ok", "tool_call": {}}
EmptyToolJson == JObject2(JMember("response", JStr("ok")), JMember("tool_call", <<"{", "}">>))
\* {"response": "formatting", "tool_call": {"name": "format_text", "parameters": {...}}}
ToolJson == JObject2(JMember("response", JStr("formatting")), JMember("tool_call", FormatTextCall))
\* {"response": "counting", "tool_call": {"name": "count_words", "parameters": {...}}}
OtherToolJson == JObject2(JMember("response", JStr("counting")), JMember("tool_call", CountWordsCall))
\* The same object in a fenced block tagged json.
FencedToolJson == <<FENCE, "json", " ">> \o ToolJson \o <<" ", FENCE>>
\* The fenced block between two braces: no JSON as a whole.
BracedFencedToolJson == <<"{", " ">> \o FencedToolJson \o <<" ", "}">>
\* Prose followed by an object with a tool_call key.
ProseToolJson == <<"Working", " ">> \o <<"{">> \o JMember("tool_call", FormatTextCall) \o <<"}">>

\* The "response" texts of the generation service in the initial call ...
GenOutputs ==
    {PlainText, PaddedText, NoToolJson, EmptyToolJson, ToolJson, FencedToolJson,
     BracedFencedToolJson, ProseToolJson}
\* ... and in the follow-up call.
FollowUpOutputs == {PlainText, ToolJson, OtherToolJson, BracedFencedToolJson}

UserInputs == {<<"hi">>, <<"format", " ", "hello">>}

\* Smaller sets of the same, for runs with several requests in flight.
FewInputs == {<<"hi">>}
FewGenOutputs == {PlainText, ToolJson}
FewFollowUpOutputs == {PlainText}
FewDiscoveryReplies == {[status |-> "ok", tools |-> <<"format_text">>]}

\* The replies of the discovery service: a tool list (the tools by name), an
\* HTTP error status, a transport error.
DiscoveryReplies ==
    {[status |-> "ok", tools |-> <<>>], [status |-> "ok", tools |-> <<"format_text">>],
     [status |-> "http_error"], [status |-> "exception"]}

\* The {result, error} bodies of the execution service.
Outcome(result, error) ==
    Dict(DictPut(DictPut(<<>>, Key("result"), result), Key("error"), error))
FormattedResult == Dict(DictPut(<<>>, Key("formatted_text"), Str(<<"HELLO">>)))
ExecOutcomes ==
    {Outcome(FormattedResult, None), Outcome(Num(0), None), Outcome(EmptyDict, None),
     Outcome(None, Str(<<"Unsupported", " ", "format">>))}
\* The replies of the execution service: a body, an HTTP error status, any
\* other exception with its message.
ExecReplies ==
    {[status |-> "ok", body |-> o] : o \in ExecOutcomes}
        \cup {[status |-> "http_error", code |-> "500"],
              [status |-> "exception", message |-> <<"timed", " ", "out">>]}

FewExecReplies ==
    {[status |-> "ok", body |-> Outcome(FormattedResult, None)],
     [status |-> "ok", body |-> Outcome(None, Str(<<"Unsupported", " ", "format">>))]}

(***************************************************************************)
(* State                                                                   *)
(***************************************************************************)
VARIABLES
    conversations,  \* ContextManager.conversations: id -> ConversationContext
    req,            \* each process_input call: its position and its locals
    appended,       \* history: id -> the messages appended since the
                    \* conversation was last created or cleared
    store_calls,    \* history: the direct store calls made, in order
    parsing         \* a call of _parse_llm_response on its own: the text
                    \* given, what was returned for it, and what was
                    \* returned for the text returned

vars == <<conversations, req, appended, store_calls, parsing>>

\* A request before process_input is called.  generated and
\* follow_up_generated are the texts the generation service sent, before the
\* connector normalised them.  The last eight fields are history: the calls
\* made, the records and messages appended, the stages passed, whether the
\* discovery call, the execution call and a generation call failed, and the
\* conversation as it was when the request arrived.  context and
\* updated_context are the dictionaries the first and the second
\* get_full_context returned.
IdleRequest ==
    [pc |-> "idle", conversation_id |-> NoId, user_input |-> <<>>,
     relevant_tools |-> <<>>, generated |-> None,
     llm_response |-> None, follow_up_generated |-> None,
     parsed_response |-> None, response_text |-> None, tool_call |-> None,
     tool_result |-> None, follow_up_response |-> None,
     parsed_follow_up |-> None, response |-> None,
     calls |-> <<>>, recorded |-> <<>>, said |-> <<>>, stages |-> <<>>,
     discovery_failed |-> FALSE, execution_failed |-> FALSE,
     generation_failed |-> FALSE, before |-> ConversationContext,
     context |-> None, updated_context |-> None]

\* No call of _parse_llm_response on its own.
NotParsing == [pc |-> "idle"]

Init ==
    /\ conversations = EmptyStore
    /\ req = [r \in Reqs |-> IdleRequest]
    /\ appended = [id \in Ids |-> <<>>]
    /\ store_calls = <<>>
    /\ parsing = NotParsing

(***************************************************************************)
(* Agent.process_input, one action per stretch between two awaited calls   *)
(***************************************************************************)
\* The ids uuid4 may return: those no conversation and no request holds.
FreshIds ==
    {id \in Ids : id \notin DOMAIN conversations
                  /\ \A r \in Reqs : req[r].conversation_id # id}

\* The history of messages appended to a conversation, after a step that
\* appended msgs to conversation_id.
AppendedAfter(conversation_id, msgs) ==
    [appended EXCEPT ![conversation_id] = @ \o msgs]

\* The messages and tool calls of a conversation, empty when there is none.
ConversationOf(convs, id) ==
    IF id \in DOMAIN convs THEN convs[id] ELSE ConversationContext

\* The call arrives; the discovery call is issued (_fetch_relevant_tools).
StartRequest(r, inputs) ==
    /\ req[r].pc = "idle"
    /\ \E given \in Ids \cup {NoId}, user_input \in inputs :
         \E conversation_id \in (IF given = NoId THEN FreshIds ELSE {given}) :
            req' = [req EXCEPT ![r] =
                      [@ EXCEPT !.pc = "discover",
                                !.conversation_id = conversation_id,
                                !.user_input = user_input,
                                !.before = ConversationOf(conversations, conversation_id),
                                !.calls = Append(@, "discovery"),
                                !.stages = Append(@, "DISCOVER_TOOLS")]]
    /\ UNCHANGED <<conversations, appended, store_calls, parsing>>

\* What a stretch of process_input leaves: the conversations, the messages it
\* appended, and the request.
Step(convs, said, rq) == [conversations |-> convs, said |-> said, rq |-> rq]

\* A process_input that differs from the source's: the exception is caught,
\* and an apology is appended and returned.
FailsWithApology(convs, rq) ==
    Step(add_message(convs, rq.conversation_id, "assistant", Str(<<"Sorry">>)).conversations,
         <<Message("assistant", <<"Sorry">>)>>,
         [rq EXCEPT !.pc = "done",
                    !.said = Append(@, Message("assistant", <<"Sorry">>)),
                    !.response_text = Str(<<"Sorry">>),
                    !.response = [conversation_id |-> rq.conversation_id,
                                  response |-> Str(<<"Sorry">>),
                                  tool_used |-> None, tool_parameters |-> None,
                                  tool_result |-> None]])

\* A process_input that differs from the source's: on an exception the
\* conversation is cleared.
FailsClearing(convs, rq) ==
    Step(clear_conversation(convs, rq.conversation_id), <<>>, [rq EXCEPT !.pc = "failed"])

\* An exception leaves process_input.
Fails(convs, rq) == Step(convs, <<>>, [rq EXCEPT !.pc = "failed"])

\* The state after a stretch of request r.
Becomes(r, step) ==
    \E s \in {step} :
        /\ conversations' = s.conversations
        /\ appended' = AppendedAfter(req[r].conversation_id, s.said)
        /\ req' = [req EXCEPT ![r] = s.rq]
        /\ UNCHANGED <<store_calls, parsing>>

\* tool_call.get("name", "unknown") and tool_call.get("parameters", {})
ToolNameOf(tool_call) == DictGet(tool_call.m, Key("name"), Str(<<"unknown">>))
ToolParametersOf(tool_call) == DictGet(tool_call.m, Key("parameters"), EmptyDict)

\* Two envelopes that differ from the source's: one whose response is the
\* "text" of the last parsed response, whatever was appended as the assistant
\* message; one whose tool_result is the result of the outcome alone.
EnvelopeOfParsedText(rq) ==
    [conversation_id |-> rq.conversation_id,
     response |-> DictGet((IF rq.parsed_follow_up # None THEN rq.parsed_follow_up
                           ELSE rq.parsed_response).m, Key("text"), rq.response_text),
     tool_used |-> IF Truthy(rq.tool_call)
                   THEN DictGet(rq.tool_call.m, Key("name"), None) ELSE None,
     tool_parameters |-> IF Truthy(rq.tool_call)
                         THEN DictGet(rq.tool_call.m, Key("parameters"), None)
                         ELSE None,
     tool_result |-> rq.tool_result]
EnvelopeOfResult(rq) ==
    [conversation_id |-> rq.conversation_id,
     response |-> rq.response_text,
     tool_used |-> IF Truthy(rq.tool_call)
                   THEN DictGet(rq.tool_call.m, Key("name"), None) ELSE None,
     tool_parameters |-> IF Truthy(rq.tool_call)
                         THEN DictGet(rq.tool_call.m, Key("parameters"), None)
                         ELSE None,
     tool_result |-> IF rq.tool_result = None THEN None
                     ELSE DictGet(rq.tool_result.m, Key("result"), None)]

\* The dictionary process_input returns.
Envelope(rq) ==
    [conversation_id |-> rq.conversation_id,
     response |-> rq.response_text,
     tool_used |-> IF Truthy(rq.tool_call)
                   THEN DictGet(rq.tool_call.m, Key("name"), None) ELSE None,
     tool_parameters |-> IF Truthy(rq.tool_call)
                         THEN DictGet(rq.tool_call.m, Key("parameters"), None)
                         ELSE None,
     tool_result |-> rq.tool_result]

\* Step 6 and the return statement: the assistant message, then the envelope.
\* rq is the request with response_text, tool_call and tool_result set.
Finalized(added, rq) ==
    IF added.raised
    THEN Fails(added.conversations, [rq EXCEPT !.stages = Append(@, "FINALIZE")])
    ELSE Step(added.conversations,
              <<Message("assistant", rq.response_text.s)>>,
              [rq EXCEPT !.pc = "done",
                         !.stages = Append(@, "FINALIZE"),
                         !.said = Append(@, Message("assistant", rq.response_text.s)),
                         !.response = Envelope(rq)])

\* A process_input that differs from the source's: the reply is appended to
\* the history the request read when it built its context, and the result
\* written back.
FinalizeOnHistoryRead(convs, rq) ==
    Finalized(add_message(IF rq.conversation_id \in DOMAIN convs
                          THEN [convs EXCEPT ![rq.conversation_id].messages =
                                   rq.context.conversation_history]
                          ELSE convs,
                          rq.conversation_id, "assistant", rq.response_text), rq)

\* Step 6: the assistant message is appended and the envelope returned.
Finalize(convs, rq) ==
    Finalized(add_message(convs, rq.conversation_id, "assistant", rq.response_text), rq)

\* Step 2 and the call of step 3: the context is built and the initial
\* generation call is issued.
BuildContext(built, rq) ==
    Step(built.conversations,
         <<Message("user", rq.user_input)>>,
         [rq EXCEPT !.pc = "generate",
                    !.context = built.context,
                    !.said = Append(@, Message("user", rq.user_input)),
                    !.calls = Append(@, "generation"),
                    !.stages = @ \o <<"BUILD_CONTEXT", "GENERATE_INITIAL">>])

\* A _fetch_relevant_tools that differs from the source's: a failed discovery
\* call raises.
fetch_relevant_tools_raising(reply) ==
    IF reply.status = "ok" THEN [raised |-> FALSE, tools |-> reply.tools]
    ELSE [raised |-> TRUE, tools |-> <<>>]

\* _fetch_relevant_tools on the reply of the discovery call: the "tools" of
\* the body, and the empty list on an error status or any other exception.
fetch_relevant_tools(reply) ==
    IF reply.status = "ok" THEN [raised |-> FALSE, tools |-> reply.tools]
    ELSE [raised |-> FALSE, tools |-> <<>>]

\* Step 1 done: the tools are kept, the context is built.
Discovered(convs, rq, fetched) ==
    IF fetched.raised THEN Fails(convs, rq)
    ELSE BuildContext(get_full_context(convs, rq.conversation_id, rq.user_input),
                      [rq EXCEPT !.relevant_tools = fetched.tools])

\* A process_input that differs from the source's: the context is built only
\* once no other request on the same conversation is past its discovery call.
DiscoveryReturnsInTurn(r, replies) ==
    /\ req[r].pc = "discover"
    /\ \A o \in Reqs \ {r} :
          req[o].conversation_id = req[r].conversation_id
              => req[o].pc \in {"idle", "discover", "done", "failed"}
    /\ \E reply \in replies :
         \E fetched \in {fetch_relevant_tools(reply)} :
            Becomes(r, Discovered(conversations,
                                  [req[r] EXCEPT !.discovery_failed = reply.status # "ok"],
                                  fetched))

\* The discovery call returns a tool list or fails; the context is built and
\* the initial generation call is issued.
DiscoveryReturns(r, replies) ==
    /\ req[r].pc = "discover"
    /\ \E reply \in replies :
         \E fetched \in {fetch_relevant_tools(reply)} :
            Becomes(r, Discovered(conversations,
                                  [req[r] EXCEPT !.discovery_failed = reply.status # "ok"],
                                  fetched))

\* The initial generation call raises: process_input does not catch it.
InitialGenerationFails(r) ==
    /\ req[r].pc = "generate"
    /\ Becomes(r, Fails(conversations, [req[r] EXCEPT !.generation_failed = TRUE]))

\* parsed_response.get("response", "") and parsed_response.get("tool_call")
ResponseTextOf(parsed) == DictGet(parsed, Key("response"), Str(<<>>))
ToolCallOf(parsed) == DictGet(parsed, Key("tool_call"), None)

\* The tool call records a store operation appended to a conversation: those
\* of after beyond those of before.
ToolCallsOf(convs, id) == IF id \in DOMAIN convs THEN convs[id].tool_calls ELSE <<>>
NewToolCalls(before, after, id) ==
    SubSeq(ToolCallsOf(after, id), Len(ToolCallsOf(before, id)) + 1,
           Len(ToolCallsOf(after, id)))

\* The first add_tool_call and the call of _execute_tool.
ProvisionalRecorded(convs, rec, rq) ==
    IF rec.raised THEN Fails(rec.conversations, rq)
    ELSE Step(rec.conversations, <<>>,
              [rq EXCEPT !.pc = "execute",
                         !.recorded = @ \o NewToolCalls(convs, rec.conversations,
                                                        rq.conversation_id),
                         !.calls = Append(@, "execution"),
                         !.stages = Append(@, "EXECUTE_TOOL")])

\* A step 5 that differs from the source's: the branch is taken for every
\* tool_call that is not None, an empty dictionary included.
ToolCallUnlessNone(convs, rq) ==
    IF rq.tool_call # None
    THEN IF ~IsDict(rq.tool_call) THEN Fails(convs, rq)
         ELSE ProvisionalRecorded(
                  convs,
                  add_tool_call(convs, rq.conversation_id, ToolNameOf(rq.tool_call),
                                ToolParametersOf(rq.tool_call), None, None),
                  rq)
    ELSE Finalize(convs, rq)

\* Step 5 up to the execution call; without a tool call, step 6.  tool_call.get
\* raises on a truthy value that is no dictionary.
ToolCallOrFinalize(convs, rq) ==
    IF Truthy(rq.tool_call)
    THEN IF ~IsDict(rq.tool_call) THEN Fails(convs, rq)
         ELSE ProvisionalRecorded(
                  convs,
                  add_tool_call(convs, rq.conversation_id, ToolNameOf(rq.tool_call),
                                ToolParametersOf(rq.tool_call), None, None),
                  rq)
    ELSE Finalize(convs, rq)

\* Step 4 on the parsed initial response.
Interpreted(convs, rq, parsed) ==
    IF parsed.raised THEN Fails(convs, rq)
    ELSE ToolCallOrFinalize(convs,
             [rq EXCEPT !.parsed_response = Dict(parsed.ret),
                        !.response_text = ResponseTextOf(parsed.ret),
                        !.tool_call = ToolCallOf(parsed.ret)])

\* The initial generation call returns text: it is normalised and parsed; with
\* a tool call the provisional record is written and the execution call is
\* issued, without one the request is finalized.
InitialGenerationReturns(r, outputs) ==
    /\ req[r].pc = "generate"
    /\ \E text \in outputs :
         \E llm_response \in {generate_with_tool_context(text)} :
            \E parsed \in {parse_llm_response(llm_response)} :
               Becomes(r, Interpreted(conversations,
                              [req[r] EXCEPT !.generated = Str(text),
                                             !.llm_response = Str(llm_response),
                                             !.stages = Append(@, "INTERPRET")],
                              parsed))

\* An _execute_tool that differs from the source's: the reason of a failure is
\* not kept.
execute_tool_silent(reply) ==
    IF reply.status = "ok" THEN reply.body ELSE Outcome(None, None)

\* _execute_tool on the reply of the execution call: the body, and an outcome
\* with no result and the reason as error on an error status or any other
\* exception.
execute_tool(reply) ==
    IF reply.status = "ok" THEN reply.body
    ELSE IF reply.status = "http_error"
         THEN Outcome(None, Str(<<"HTTP", " ", "error:", " ", reply.code>>))
    ELSE Outcome(None, Str(reply.message))

\* A test that differs from the source's: the truth value of the result.
FollowUpWantedTruthy(tool_result) ==
    Truthy(DictGet(tool_result.m, Key("result"), None))

\* tool_result.get("result") is not None: the test that decides the follow-up.
FollowUpWanted(tool_result) == DictGet(tool_result.m, Key("result"), None) # None

\* A process_input that differs from the source's: with a result it goes back
\* to the initial generation on the rebuilt context.
FollowUpFromGeneration(built, rq) ==
    Step(built.conversations,
         <<Message("user", rq.user_input)>>,
         [rq EXCEPT !.pc = "generate",
                    !.said = Append(@, Message("user", rq.user_input)),
                    !.calls = Append(@, "generation"),
                    !.stages = @ \o <<"BUILD_CONTEXT", "GENERATE_INITIAL">>])

\* A process_input that differs from the source's: the follow-up context is
\* read without the user input being appended again.
FollowUpKeepingHistory(built, rq) ==
    Step([built.conversations EXCEPT ![rq.conversation_id].messages =
              SubSeq(@, 1, Len(@) - 1)],
         <<>>,
         [rq EXCEPT !.pc = "follow_up",
                    !.calls = Append(@, "follow_up_generation"),
                    !.stages = Append(@, "FOLLOW_UP")])

\* The rebuilt context and the call of the follow-up generation.
FollowUp(built, rq) ==
    Step(built.conversations,
         <<Message("user", rq.user_input)>>,
         [rq EXCEPT !.pc = "follow_up",
                    !.updated_context = built.context,
                    !.said = Append(@, Message("user", rq.user_input)),
                    !.calls = Append(@, "follow_up_generation"),
                    !.stages = Append(@, "FOLLOW_UP")])

\* After the second add_tool_call: the follow-up, or step 6.
OutcomeRecorded(convs, rec, rq) ==
    IF rec.raised THEN Fails(rec.conversations, rq)
    ELSE IF FollowUpWanted(rq.tool_result)
         THEN FollowUp(get_full_context(rec.conversations, rq.conversation_id, rq.user_input),
                       [rq EXCEPT !.recorded = @ \o NewToolCalls(convs, rec.conversations,
                                                                 rq.conversation_id)])
         ELSE Finalize(rec.conversations,
                       [rq EXCEPT !.recorded = @ \o NewToolCalls(convs, rec.conversations,
                                                                 rq.conversation_id)])

\* A step 5 that differs from the source's: no second add_tool_call.
RecordOutcomeSkipped(convs, rq) == OutcomeRecorded(convs, Stored(convs), rq)

\* A step 5 that differs from the source's: with a result the follow-up
\* context is built first, and the outcome is recorded after it.
RecordOutcomeAfterContext(convs, rq) ==
    IF ~FollowUpWanted(rq.tool_result)
    THEN OutcomeRecorded(
             convs,
             add_tool_call(convs, rq.conversation_id, ToolNameOf(rq.tool_call),
                           ToolParametersOf(rq.tool_call),
                           DictGet(rq.tool_result.m, Key("result"), None),
                           DictGet(rq.tool_result.m, Key("error"), None)),
             rq)
    ELSE LET built == get_full_context(convs, rq.conversation_id, rq.user_input)
             rec == add_tool_call(built.conversations, rq.conversation_id,
                                  ToolNameOf(rq.tool_call), ToolParametersOf(rq.tool_call),
                                  DictGet(rq.tool_result.m, Key("result"), None),
                                  DictGet(rq.tool_result.m, Key("error"), None))
         IN  IF rec.raised THEN Fails(rec.conversations, rq)
             ELSE FollowUp([conversations |-> rec.conversations, context |-> built.context],
                           [rq EXCEPT !.recorded = @ \o NewToolCalls(convs, rec.conversations,
                                                                     rq.conversation_id)])

\* The second add_tool_call, with the outcome's result and error.
RecordOutcome(convs, rq) ==
    OutcomeRecorded(
        convs,
        add_tool_call(convs, rq.conversation_id, ToolNameOf(rq.tool_call),
                      ToolParametersOf(rq.tool_call),
                      DictGet(rq.tool_result.m, Key("result"), None),
                      DictGet(rq.tool_result.m, Key("error"), None)),
        rq)

\* The execution call returns an outcome, or fails and _execute_tool turns the
\* failure into an outcome; the second record is written; with a result the
\* context is rebuilt and the follow-up generation call is issued, without
\* one the request is finalized.
ExecutionReturns(r, replies) ==
    /\ req[r].pc = "execute"
    /\ \E reply \in replies :
         \E tool_result \in {execute_tool(reply)} :
            Becomes(r, RecordOutcome(conversations,
                           [req[r] EXCEPT !.tool_result = tool_result,
                                          !.execution_failed = reply.status # "ok",
                                          !.stages = Append(@, "RECORD")]))

\* The follow-up generation call raises: process_input does not catch it.
FollowUpGenerationFails(r) ==
    /\ req[r].pc = "follow_up"
    /\ Becomes(r, Fails(conversations, [req[r] EXCEPT !.generation_failed = TRUE]))

\* A process_input that differs from the source's: the tool call of the
\* follow-up response replaces the one of the initial response.
FollowUpInterpretedWithToolCall(convs, rq, parsed) ==
    IF parsed.raised THEN Fails(convs, rq)
    ELSE Finalize(convs,
             [rq EXCEPT !.parsed_follow_up = Dict(parsed.ret),
                        !.response_text = ResponseTextOf(parsed.ret),
                        !.tool_call = IF Truthy(ToolCallOf(parsed.ret))
                                      THEN ToolCallOf(parsed.ret) ELSE @])

\* The parsed follow-up response: its "response" becomes the reply.
FollowUpInterpreted(convs, rq, parsed) ==
    IF parsed.raised THEN Fails(convs, rq)
    ELSE Finalize(convs,
             [rq EXCEPT !.parsed_follow_up = Dict(parsed.ret),
                        !.response_text = ResponseTextOf(parsed.ret)])

\* The follow-up generation call returns text: it is normalised and parsed,
\* its "response" becomes the reply, and the request is finalized.
FollowUpGenerationReturns(r, outputs) ==
    /\ req[r].pc = "follow_up"
    /\ \E text \in outputs :
         \E follow_up_response \in {generate_with_tool_context(text)} :
            \E parsed \in {parse_llm_response(follow_up_response)} :
               Becomes(r, FollowUpInterpreted(conversations,
                              [req[r] EXCEPT !.follow_up_generated = Str(text),
                                             !.follow_up_response = Str(follow_up_response)],
                              parsed))

(***************************************************************************)
(* Direct calls of the store's operations                                  *)
(***************************************************************************)
Roles == {"user", "assistant", "system"}

\* The direct calls made, after a call of op on conversation_id.
Called(op, conversation_id) ==
    Append(store_calls, [op |-> op, conversation_id |-> conversation_id])

CreateConversation(id) ==
    /\ Len(store_calls) < MaxStoreOps
    /\ conversations' = create_conversation(conversations, id)
    /\ appended' = [appended EXCEPT ![id] = <<>>]
    /\ store_calls' = Called("create_conversation", id)
    /\ UNCHANGED <<req, parsing>>

AddMessage(id, contents) ==
    /\ Len(store_calls) < MaxStoreOps
    /\ \E role \in Roles, content \in contents :
         /\ conversations' = add_message(conversations, id, role, Str(content)).conversations
         /\ appended' = AppendedAfter(id, <<Message(role, content)>>)
    /\ store_calls' = Called("add_message", id)
    /\ UNCHANGED <<req, parsing>>

AddToolCall(id) ==
    /\ Len(store_calls) < MaxStoreOps
    /\ \E tool_result \in {Outcome(Num(0), None)} :
         conversations' =
             add_tool_call(conversations, id, Str(<<"count_words">>), EmptyDict,
                           tool_result.m[Key("result")],
                           tool_result.m[Key("error")]).conversations
    /\ store_calls' = Called("add_tool_call", id)
    /\ UNCHANGED <<req, appended, parsing>>

GetFullContext(id, inputs) ==
    /\ Len(store_calls) < MaxStoreOps
    /\ \E user_input \in inputs :
         /\ conversations' = get_full_context(conversations, id, user_input).conversations
         /\ appended' = AppendedAfter(id, <<Message("user", user_input)>>)
    /\ store_calls' = Called("get_full_context", id)
    /\ UNCHANGED <<req, parsing>>

ClearConversation(id) ==
    /\ Len(store_calls) < MaxStoreOps
    /\ conversations' = clear_conversation(conversations, id)
    /\ appended' = [appended EXCEPT ![id] = <<>>]
    /\ store_calls' = Called("clear_conversation", id)
    /\ UNCHANGED <<req, parsing>>

(***************************************************************************)
(* The server's conversation endpoints                                     *)
(***************************************************************************)
\* What an endpoint answers: the HTTP status and the "status" or the data of
\* the body.
HttpReply(status_code, body) == [status_code |-> status_code, body |-> body]

\* The calls made, after an endpoint was called for conversation_id and replied.
Answered(op, conversation_id, reply) ==
    Append(store_calls, [op |-> op, conversation_id |-> conversation_id, reply |-> reply])

\* DELETE /conversation/{conversation_id}: the store's delete, then success.
delete_conversation_endpoint(convs, conversation_id) ==
    [conversations |-> delete_conversation(convs, conversation_id),
     reply |-> HttpReply(200, [status |-> "success"])]

\* GET /conversation/{conversation_id}: 404 for an id that is not in the store,
\* else the messages and the tool calls of its conversation.
get_conversation_endpoint(convs, conversation_id) ==
    [conversations |-> convs,
     reply |-> IF conversation_id \notin DOMAIN convs THEN HttpReply(404, [detail |-> "not found"])
               ELSE HttpReply(200, convs[conversation_id])]

DeleteConversation(id) ==
    /\ Len(store_calls) < MaxStoreOps
    /\ \E done \in {delete_conversation_endpoint(conversations, id)} :
          /\ conversations' = done.conversations
          /\ store_calls' = Answered("delete_conversation", id, done.reply)
    /\ appended' = [appended EXCEPT ![id] = <<>>]
    /\ UNCHANGED <<req, parsing>>

GetConversation(id) ==
    /\ Len(store_calls) < MaxStoreOps
    /\ \E done \in {get_conversation_endpoint(conversations, id)} :
          /\ conversations' = done.conversations
          /\ store_calls' = Answered("get_conversation", id, done.reply)
    /\ UNCHANGED <<req, appended, parsing>>

\* Requests served concurrently by the one Agent, and direct store calls.  The
\* collaborators answer from the smaller sets and the discovery call succeeds.
Next ==
    \/ \E r \in Reqs : StartRequest(r, FewInputs)
    \/ \E r \in Reqs : DiscoveryReturns(r, FewDiscoveryReplies)
    \/ \E r \in Reqs : InitialGenerationFails(r)
    \/ \E r \in Reqs : InitialGenerationReturns(r, FewGenOutputs)
    \/ \E r \in Reqs : ExecutionReturns(r, FewExecReplies)
    \/ \E r \in Reqs : FollowUpGenerationFails(r)
    \/ \E r \in Reqs : FollowUpGenerationReturns(r, FewFollowUpOutputs)
    \/ \E id \in Ids : CreateConversation(id)
    \/ \E id \in Ids : AddMessage(id, FewInputs)
    \/ \E id \in Ids : AddToolCall(id)
    \/ \E id \in Ids : GetFullContext(id, FewInputs)
    \/ \E id \in Ids : ClearConversation(id)
    \/ \E id \in Ids : DeleteConversation(id)
    \/ \E id \in Ids : GetConversation(id)

Spec == Init /\ [][Next]_vars

\* One stretch of request r: an awaited call of r returns or fails, and
\* process_input runs up to its next awaited call or to its end.
RequestStep(r) ==
    \/ DiscoveryReturns(r, FewDiscoveryReplies)
    \/ InitialGenerationFails(r)
    \/ InitialGenerationReturns(r, FewGenOutputs)
    \/ ExecutionReturns(r, FewExecReplies)
    \/ FollowUpGenerationFails(r)
    \/ FollowUpGenerationReturns(r, FewFollowUpOutputs)

\* Requests served concurrently by the one Agent, and conversations deleted
\* under them.
NextConcurrent ==
    \/ \E r \in Reqs : StartRequest(r, FewInputs)
    \/ \E r \in Reqs : RequestStep(r)
    \/ \E id \in Ids : DeleteConversation(id)

\* The event loop resumes every coroutine whose awaited call has returned or
\* failed; whether a request arrives or a conversation is deleted is left
\* open.
SpecFair ==
    Init /\ [][NextConcurrent]_vars /\ \A r \in Reqs : WF_vars(RequestStep(r))

\* One request at a time, the collaborators answering from the full sets, and
\* the conversation deleted or cleared under it.
NextPipeline ==
    \/ StartRequest(1, UserInputs)
    \/ DiscoveryReturns(1, DiscoveryReplies)
    \/ InitialGenerationFails(1)
    \/ InitialGenerationReturns(1, GenOutputs)
    \/ ExecutionReturns(1, ExecReplies)
    \/ FollowUpGenerationFails(1)
    \/ FollowUpGenerationReturns(1, FollowUpOutputs)
    \/ \E id \in Ids : ClearConversation(id)
    \/ \E id \in Ids : DeleteConversation(id)

SpecPipeline == Init /\ [][NextPipeline]_vars

\* One stretch of the one request, the collaborators answering from the full
\* sets.
PipelineStep ==
    \/ DiscoveryReturns(1, DiscoveryReplies)
    \/ InitialGenerationFails(1)
    \/ InitialGenerationReturns(1, GenOutputs)
    \/ ExecutionReturns(1, ExecReplies)
    \/ FollowUpGenerationFails(1)
    \/ FollowUpGenerationReturns(1, FollowUpOutputs)

\* The one request is resumed whenever its awaited call has returned or
\* failed.
SpecPipelineFair == Init /\ [][NextPipeline]_vars /\ WF_vars(PipelineStep)

(***************************************************************************)
(* Agent._parse_llm_response called on its own                             *)
(***************************************************************************)
\* The longest text of tokens drawn freely.
MaxTextLen == 3

TextTokens == {" ", "Hi", "42", "{", "}", FENCE, SQUOTE, "Q0"}
TextsUpTo(n) == UNION {[1..k -> TextTokens] : k \in 0..n}

\* A parameters object, as text and as the value it stands for.
ParameterObject(tokens, value) == [tokens |-> tokens, value |-> value]
TextParameter(literal, s) ==
    ParameterObject(<<"{">> \o JMember("text", literal) \o <<"}">>,
                    Dict(DictPut(<<>>, Key("text"), Str(s))))
\* {}, {"text": "hello"}, and string values with a closing brace, with an
\* apostrophe and with escaped double quotes.
ParameterObjects ==
    {ParameterObject(<<"{", "}">>, EmptyDict),
     TextParameter(JStr("hello"), <<"hello">>),
     TextParameter(<<"Q0", "a", "}", "b", "Q0">>, <<"a", "}", "b">>),
     TextParameter(<<"Q0", "it", SQUOTE, "s", "Q0">>, <<"it", SQUOTE, "s">>),
     TextParameter(<<"Q0", "say", " ", "Q1", "hi", "Q1", "Q0">>,
                   <<"say", " ", "Q0", "hi", "Q0">>)}
ToolNames == {"format_text", "count_words"}

\* {"name": n, "parameters": p} as text and as a value.
CallObject(name, parameters) ==
    JObject2(JMember("name", JStr(name)), JMember("parameters", parameters.tokens))
CallValue(name, parameters) ==
    Dict(DictPut(DictPut(<<>>, Key("name"), Str(<<name>>)),
                 Key("parameters"), parameters.value))

\* String literals for a "response" member.
ResponseLiterals == {JStr("ok"), <<"Q0", "Q0">>, <<"Q0", "a", "{", "b", "Q0">>}

\* A text given to _parse_llm_response: what it is made of, and the text.
Given(family, text, r, tool_call) ==
    [pc |-> "given", family |-> family, text |-> text, r |-> r,
     tool_call |-> tool_call, parsed |-> None, again |-> None, handed |-> None,
     result |-> None]

\* Texts of freely drawn tokens.
RawTexts == {Given("raw", t, <<>>, None) : t \in TextsUpTo(MaxTextLen)}

\* The JSON object {"response": r, "tool_call": null}, for r drawn freely and
\* for r holding a fenced object or an object with a tool call themselves.
WrappedTexts ==
    {Given("wrapped", JsonDumpsWrapped(r), r, None) :
        r \in TextsUpTo(MaxTextLen) \cup {FencedToolJson, ProseToolJson, PaddedText}}

\* One fenced block, tagged json or not, holding
\* {"response": r, "tool_call": {"name": n, "parameters": p}}, with text around.
FencedTexts ==
    {Given("fenced",
           prose \o <<FENCE>> \o tag
               \o JObject2(JMember("response", r), JMember("tool_call", CallObject(n, p)))
               \o rest,
           r, CallValue(n, p)) :
        prose \in {<<>>, <<"Working", " ">>, <<"Use", " ", "{", "x", "}", " ">>, <<"{", " ">>},
        tag \in {<<>>, <<" ">>, <<"json">>, <<"json", " ">>},
        r \in ResponseLiterals, n \in ToolNames, p \in ParameterObjects,
        rest \in {<<FENCE>>, <<" ", FENCE, " ", "Done">>, <<FENCE, " ", "}">>}}

\* Prose followed by an object with a tool_call member, with and without a
\* "response" member before it.
ProseTexts ==
    {Given("prose",
           prose \o <<"{">> \o members \o JMember("tool_call", CallObject(n, p)) \o <<"}">>,
           <<>>, CallValue(n, p)) :
        prose \in {<<"Working", " ">>, <<"I", SQUOTE, "ll", " ", "help.", " ">>},
        members \in {<<>>, JMember("response", JStr("ok")) \o <<",", " ">>},
        n \in ToolNames, p \in ParameterObjects}

\* Texts the generation service is not asked for but can send: objects whose
\* "response" is null or a number or is missing, fenced blocks holding a
\* number, a string or null, and fenced objects lacking "response",
\* "tool_call" or both.
OddTexts ==
    {Given("odd", t, <<>>, None) :
        t \in {JObject2(JMember("response", <<"null">>), JMember("tool_call", <<"null">>)),
               JObject2(JMember("response", <<"42">>), JMember("tool_call", <<"null">>)),
               <<"{">> \o JMember("tool_call", <<"null">>) \o <<"}">>,
               <<"{", "}">>,
               <<FENCE, "42", FENCE>>,
               <<FENCE, "json", " ">> \o JStr("Hi") \o <<" ", FENCE>>,
               <<FENCE, "null", FENCE>>,
               <<FENCE, "{">> \o JMember("tool_call", FormatTextCall) \o <<"}", FENCE>>,
               <<FENCE, "{">> \o JMember("response", JStr("ok")) \o <<"}", FENCE>>,
               <<FENCE, "{", "}", FENCE>>}}

\* Prose with one or two brace-delimited objects for the scan of strategy 3:
\* candidates whose tool_call is null, empty, a string or an object, with and
\* without a "response", before more braces or a deeper tool-call object, and
\* texts with no candidate or with one kind of brace only.
JObject1(m1) == <<"{">> \o m1 \o <<"}">>
NameOnlyCall == JObject1(JMember("name", JStr("format_text")))
ScanObjects ==
    {JObject1(JMember("tool_call", <<"null">>)),
     JObject1(JMember("tool_call", <<"{", "}">>)),
     JObject1(JMember("tool_call", JStr("format_text"))),
     JObject1(JMember("tool_call", NameOnlyCall)),
     JObject2(JMember("response", JStr("ok")), JMember("tool_call", <<"null">>)),
     JObject2(JMember("response", <<"Q0", "see", " ", "{", "x", "}", "Q0">>),
              JMember("tool_call", <<"null">>)),
     JObject2(JMember("response", <<"42">>), JMember("tool_call", <<"null">>)),
     JObject1(JMember("a", <<"null">>))}
ScanTexts ==
    {Given("scan", <<"Hi", " ">> \o object \o rest, <<>>, None) :
         object \in ScanObjects,
         rest \in {<<>>, <<" ", "{", "x", "}">>, <<" ", "{">>,
                   <<" ">> \o JObject1(JMember("tool_call", NameOnlyCall)),
                   <<" ">> \o JObject1(JMember("tool_call", FormatTextCall))}}
        \cup {Given("scan", t, <<>>, None) : t \in {<<"Hi", " ", "{">>, <<"}", " ", "Hi">>}}

InitInterpret ==
    /\ conversations = EmptyStore
    /\ req = [r \in Reqs |-> IdleRequest]
    /\ appended = [id \in Ids |-> <<>>]
    /\ store_calls = <<>>
    /\ parsing \in RawTexts \cup WrappedTexts \cup FencedTexts \cup ProseTexts \cup OddTexts
                   \cup ScanTexts

\* _parse_llm_response on the text given.
ParseLlmResponse ==
    /\ parsing.pc = "given"
    /\ \E parsed \in {parse_llm_response(parsing.text)} :
          parsing' = [parsing EXCEPT !.pc = "parsed", !.parsed = parsed]
    /\ UNCHANGED <<conversations, req, appended, store_calls>>

\* _parse_llm_response on the "text" it returned.
ParseReturnedText ==
    /\ parsing.pc = "parsed"
    /\ ~parsing.parsed.raised
    /\ Key("text") \in DOMAIN parsing.parsed.ret
    /\ \E again \in {parse_llm_response(parsing.parsed.ret[Key("text")].s)} :
          parsing' = [parsing EXCEPT !.pc = "parsed_again", !.again = again]
    /\ UNCHANGED <<conversations, req, appended, store_calls>>

\* The text given is the "response" of a generation: the connector normalises
\* it and process_input calls _parse_llm_response on what the connector hands
\* on.
GenerateAndParse ==
    /\ parsing.pc = "given"
    /\ \E llm_response \in {generate_with_tool_context(parsing.text)} :
          \E parsed \in {parse_llm_response(llm_response)} :
             parsing' = [parsing EXCEPT !.pc = "generated",
                                        !.handed = Str(llm_response),
                                        !.parsed = parsed]
    /\ UNCHANGED <<conversations, req, appended, store_calls>>

\* The text given is the body of a reply of the generation service:
\* generate_response reads it.
GenerateResponse ==
    /\ parsing.pc = "given"
    /\ \E result \in {generate_response(parsing.text)} :
          parsing' = [parsing EXCEPT !.pc = "replied", !.result = result]
    /\ UNCHANGED <<conversations, req, appended, store_calls>>

NextInterpret ==
    ParseLlmResponse \/ ParseReturnedText \/ GenerateAndParse \/ GenerateResponse

SpecInterpret == InitInterpret /\ [][NextInterpret]_vars

(***************************************************************************)
(* Properties                                                              *)
(***************************************************************************)
IsPrefix(s, t) == Len(s) <= Len(t) /\ SubSeq(t, 1, Len(s)) = s
LastOf(s, n) == SubSeq(s, Len(s) - n + 1, Len(s))
Count(s, x) == Cardinality({i \in DOMAIN s : s[i] = x})
Evicted(id) == SubSeq(appended[id], 1, Len(appended[id]) - max_history_length)

\* The text the interpreter extracted: the "text" of its result, and the
\* "response" of a fenced object returned as it is.
InterpretedText(parsed) ==
    IF Key("text") \in DOMAIN parsed.m THEN parsed.m[Key("text")]
    ELSE DictGet(parsed.m, Key("response"), Str(<<>>))

HasBraces(text) == Contains(text, "{") \/ Contains(text, "}")

\* C1: in every reachable state, under any interleaving of message appends,
\* context builds and requests, concurrent requests on one id included, no
\* conversation holds more than max_history_length messages.
HistoryBounded ==
    \A id \in DOMAIN conversations :
        Len(conversations[id].messages) <= max_history_length

\* Two requests on one conversation have both appended to it, more messages
\* were appended than the cap, and the conversation is full.
HistoryBoundedWitness ==
    \E id \in DOMAIN conversations :
        /\ Len(appended[id]) > max_history_length
        /\ Len(conversations[id].messages) = max_history_length
        /\ \E r1, r2 \in Reqs :
              /\ r1 # r2
              /\ req[r1].conversation_id = id /\ req[r1].said # <<>>
              /\ req[r2].conversation_id = id /\ req[r2].said # <<>>

\* C2: once more than max_history_length messages were appended to a
\* conversation since it was created or cleared, it holds exactly
\* max_history_length messages: the last ones appended, in the order of the
\* appends, whatever their roles.
HistoryIsLastAppended ==
    \A id \in DOMAIN conversations :
        Len(appended[id]) > max_history_length =>
            conversations[id].messages = LastOf(appended[id], max_history_length)

\* Messages of two roles were evicted from a conversation, and messages of
\* two roles are left in it.
HistoryIsLastAppendedWitness ==
    \E id \in DOMAIN conversations :
        /\ Len(appended[id]) > max_history_length + 1
        /\ \E i, j \in DOMAIN Evicted(id) : Evicted(id)[i].role # Evicted(id)[j].role
        /\ \E i, j \in DOMAIN conversations[id].messages :
              conversations[id].messages[i].role # conversations[id].messages[j].role

\* C3, as amended: in every step that is no clear, no delete and no
\* create_conversation of a conversation's id, the conversation stays and its
\* tool_calls before the step are a prefix of its tool_calls after it.
ToolCallsAppendOnly ==
    [][\A id \in DOMAIN conversations :
          \/ ClearConversation(id) \/ DeleteConversation(id) \/ CreateConversation(id)
          \/ /\ id \in DOMAIN conversations'
             /\ IsPrefix(conversations[id].tool_calls, conversations'[id].tool_calls)]_vars

\* A conversation holds the two records of one request's tool call and a
\* record of a direct call behind them, and its messages were trimmed.
ToolCallsAppendOnlyWitness ==
    \E id \in DOMAIN conversations :
        /\ Len(conversations[id].tool_calls) >= 3
        /\ conversations[id].tool_calls[1].result = None
        /\ conversations[id].tool_calls[2].result # None
        /\ conversations[id].tool_calls[3].tool_name = <<"count_words">>
        /\ Len(appended[id]) > max_history_length

\* C3, as stated: in every step that is no clear and no delete of a
\* conversation's id, its tool_calls before the step are a prefix of its
\* tool_calls after it.
ToolCallsAppendOnlyButClearDelete ==
    [][\A id \in DOMAIN conversations :
          \/ ClearConversation(id) \/ DeleteConversation(id)
          \/ /\ id \in DOMAIN conversations'
             /\ IsPrefix(conversations[id].tool_calls, conversations'[id].tool_calls)]_vars

\* The two records of a request with a tool call and an outcome.
ProvisionalRecord(rq) ==
    ToolCall(ToolNameOf(rq.tool_call).s, ToolParametersOf(rq.tool_call), None, None)
OutcomeRecord(rq) ==
    ToolCall(ToolNameOf(rq.tool_call).s, ToolParametersOf(rq.tool_call),
             DictGet(rq.tool_result.m, Key("result"), None),
             DictGet(rq.tool_result.m, Key("error"), None))

\* C4: a request whose interpreted response has a tool call appends exactly
\* two records with its name and parameters: one without result and error
\* before the execution call, one with the outcome's result and error after
\* it.  A request without a tool call appends none.
TwoRecordsPerToolCall ==
    \A r \in Reqs :
        /\ ~Truthy(req[r].tool_call) => req[r].recorded = <<>>
        /\ Truthy(req[r].tool_call) /\ req[r].pc = "execute" =>
              req[r].recorded = <<ProvisionalRecord(req[r])>>
        /\ Truthy(req[r].tool_call) /\ req[r].pc \in {"follow_up", "done", "failed"} =>
              req[r].recorded = <<ProvisionalRecord(req[r]), OutcomeRecord(req[r])>>

\* A request with a tool call has ended after an outcome with a result, and
\* its two records are in the store.
TwoRecordsPerToolCallWitness ==
    \E r \in Reqs :
        /\ req[r].pc = "done"
        /\ Len(req[r].recorded) = 2
        /\ req[r].recorded[2].result = FormattedResult
        /\ req[r].conversation_id \in DOMAIN conversations
        /\ conversations[req[r].conversation_id].tool_calls = req[r].recorded

\* C5: a request makes exactly one follow-up generation call if its tool was
\* executed and the outcome's result is not None, whatever its truth value,
\* and none otherwise.
OneFollowUpIffResult ==
    \A r \in Reqs :
        Count(req[r].calls, "follow_up_generation") =
            IF /\ req[r].tool_result # None
               /\ DictGet(req[r].tool_result.m, Key("result"), None) # None
            THEN 1 ELSE 0

\* A request has ended after an outcome whose result is 0 and a follow-up.
OneFollowUpIffResultWitness ==
    \E r \in Reqs :
        /\ req[r].pc = "done"
        /\ req[r].tool_result = Outcome(Num(0), None)
        /\ Count(req[r].calls, "follow_up_generation") = 1

\* C6: when a follow-up generation occurred, the response returned is the
\* text the interpreter extracted from the follow-up output, and for a
\* follow-up output of plain text that output itself.
ReplyIsFollowUpText ==
    \A r \in Reqs :
        req[r].pc = "done" /\ req[r].parsed_follow_up # None =>
            /\ req[r].response.response = InterpretedText(req[r].parsed_follow_up)
            /\ ~HasBraces(req[r].follow_up_generated.s) =>
                  req[r].response.response = req[r].follow_up_generated

\* C7: for an initial output of plain text without braces the request returns
\* no tool, a response equal to the generated text, and makes no execution
\* call and no follow-up generation call.
PlainTextIsTheReply ==
    \A r \in Reqs :
        req[r].pc = "done" /\ ~HasBraces(req[r].generated.s) =>
            /\ req[r].response.tool_used = None
            /\ req[r].response.response = req[r].generated
            /\ Count(req[r].calls, "execution") = 0
            /\ Count(req[r].calls, "follow_up_generation") = 0

\* C8: for an initial output that is a fenced JSON object with a tool_call
\* naming format_text, the request executes the tool, records two tool calls
\* and returns format_text as the tool used; with a result it makes the
\* follow-up generation call.
FencedToolCallIsExecuted ==
    \A r \in Reqs :
        req[r].pc = "done" /\ req[r].generated = Str(FencedToolJson) =>
            /\ Count(req[r].calls, "execution") = 1
            /\ req[r].response.tool_used = Str(<<"format_text">>)
            /\ Len(req[r].recorded) = 2
            /\ FollowUpWanted(req[r].tool_result) =>
                  Count(req[r].calls, "follow_up_generation") = 1

\* C9: when the outcome has no result, the request makes no follow-up
\* generation call, the response returned is the text interpreted from the
\* initial output, and the tool's name, its parameters and the outcome are
\* returned with it.
NoResultKeepsInitialText ==
    \A r \in Reqs :
        (/\ req[r].pc = "done"
         /\ req[r].tool_result # None
         /\ DictGet(req[r].tool_result.m, Key("result"), None) = None)
        => /\ Count(req[r].calls, "follow_up_generation") = 0
           /\ req[r].response.response = InterpretedText(req[r].parsed_response)
           /\ req[r].response.tool_used = ToolNameOf(req[r].tool_call)
           /\ req[r].response.tool_parameters = ToolParametersOf(req[r].tool_call)
           /\ req[r].response.tool_result = req[r].tool_result

\* C10: when the discovery call fails, the tool list is empty and the request
\* goes on: the context is built with the user message and the initial
\* generation call is made.
DiscoveryFailureIsEmptyList ==
    \A r \in Reqs :
        req[r].discovery_failed =>
            /\ req[r].relevant_tools = <<>>
            /\ req[r].pc # "discover"
            /\ IsPrefix(<<"DISCOVER_TOOLS", "BUILD_CONTEXT", "GENERATE_INITIAL">>,
                        req[r].stages)
            /\ IsPrefix(<<"discovery", "generation">>, req[r].calls)
            /\ IsPrefix(<<Message("user", req[r].user_input)>>, req[r].said)

\* A request whose discovery call failed has ended with a response.
DiscoveryFailureIsEmptyListWitness ==
    \E r \in Reqs : req[r].discovery_failed /\ req[r].pc = "done"

\* C11: a failure of the execution call, an HTTP error status or any other
\* exception, becomes the outcome with no result and the reason as error;
\* nothing is raised: the request appends the second record with that error,
\* appends the assistant message and returns a response.
ExecutionFailureIsAnOutcome ==
    \A r \in Reqs :
        req[r].execution_failed =>
            /\ req[r].tool_result \in
                   {Outcome(None, Str(<<"HTTP", " ", "error:", " ", "500">>)),
                    Outcome(None, Str(<<"timed", " ", "out">>))}
            /\ req[r].pc = "done"
            /\ Len(req[r].recorded) = 2
            /\ req[r].recorded[2].result = None
            /\ req[r].recorded[2].error = req[r].tool_result.m[Key("error")]
            /\ req[r].said[Len(req[r].said)].role = "assistant"
            /\ req[r].response # None
            /\ req[r].response.tool_result = req[r].tool_result

\* A request whose execution call ended in an HTTP error has returned.
ExecutionFailureIsAnOutcomeWitness ==
    \E r \in Reqs :
        /\ req[r].execution_failed
        /\ req[r].pc = "done"
        /\ req[r].tool_result.m[Key("error")] = Str(<<"HTTP", " ", "error:", " ", "500">>)

\* C12: when the initial or the follow-up generation call fails, the request
\* fails: it returns no response, the failed generation call is its last
\* external call, made once, and it appends no assistant message.
GenerationFailureIsFatal ==
    \A r \in Reqs :
        req[r].generation_failed =>
            /\ req[r].pc = "failed"
            /\ req[r].response = None
            /\ req[r].calls[Len(req[r].calls)] \in {"generation", "follow_up_generation"}
            /\ Count(req[r].calls, "generation") = 1
            /\ Count(req[r].calls, "follow_up_generation") <= 1
            /\ \A i \in DOMAIN req[r].said : req[r].said[i].role # "assistant"

\* A request has failed in its follow-up generation call, after both records
\* of its tool call.
GenerationFailureIsFatalWitness ==
    \E r \in Reqs :
        /\ req[r].generation_failed
        /\ req[r].calls[Len(req[r].calls)] = "follow_up_generation"
        /\ Len(req[r].recorded) = 2

OneAssistantMessageIsTheReply ==
    \A r \in Reqs :
        req[r].pc = "done" =>
            /\ Cardinality({i \in DOMAIN req[r].said : req[r].said[i].role = "assistant"}) = 1
            /\ req[r].said[Len(req[r].said)] =
                   Message("assistant", req[r].response.response.s)
            /\ store_calls = <<>> =>
                  /\ LastOf(conversations[req[r].conversation_id].messages, 1) =
                        <<Message("assistant", req[r].response.response.s)>>
                  /\ conversations[req[r].conversation_id].tool_calls = req[r].recorded

\* A request has returned a response that is not empty, after a follow-up.
OneAssistantMessageIsTheReplyWitness ==
    \E r \in Reqs :
        /\ req[r].pc = "done"
        /\ req[r].response.response # Str(<<>>)
        /\ req[r].parsed_follow_up # None
        /\ Len(req[r].said) = 3

\* The tool call interpreted from the initial generation of a request.
InitialIntent(rq) ==
    DictGet(parse_llm_response(rq.llm_response.s).ret, Key("tool_call"), None)

\* C15: in the envelope a request returns, tool_used, tool_parameters and
\* tool_result are all None when the initial generation was interpreted
\* without a tool call; otherwise tool_used and tool_parameters are the name
\* and the parameters of that tool call and tool_result is the whole outcome
\* of the execution, result and error, as the execution service sent it.
EnvelopeCarriesToolCall ==
    \A r \in Reqs :
        req[r].pc = "done" =>
            IF ~Truthy(InitialIntent(req[r]))
            THEN /\ req[r].response.tool_used = None
                 /\ req[r].response.tool_parameters = None
                 /\ req[r].response.tool_result = None
            ELSE /\ req[r].response.tool_used = InitialIntent(req[r]).m[Key("name")]
                 /\ req[r].response.tool_parameters =
                       InitialIntent(req[r]).m[Key("parameters")]
                 /\ req[r].response.tool_result = req[r].tool_result
                 /\ DOMAIN req[r].response.tool_result.m = {Key("result"), Key("error")}
                 /\ ~req[r].execution_failed => req[r].response.tool_result \in ExecOutcomes

\* A request has returned after a tool call whose result is an empty object.
EnvelopeCarriesToolCallWitness ==
    \E r \in Reqs :
        /\ req[r].pc = "done"
        /\ req[r].response.tool_used = Str(<<"format_text">>)
        /\ req[r].response.tool_result = Outcome(EmptyDict, None)

KeepLast(s, n) == IF Len(s) > n THEN LastOf(s, n) ELSE s

\* What one context build for user_input must have done to the store in a step.
OneUserMessageAppended(id, user_input) ==
    /\ DOMAIN conversations' = DOMAIN conversations \cup {id}
    /\ \A other \in DOMAIN conversations \ {id} :
          conversations'[other] = conversations[other]
    /\ conversations'[id].tool_calls = ConversationOf(conversations, id).tool_calls
    /\ conversations'[id].messages =
          KeepLast(ConversationOf(conversations, id).messages
                       \o <<Message("user", user_input)>>, max_history_length)

\* C16: a get_full_context call, made directly or as the first context build
\* of a request, appends exactly one user message with the user input to the
\* conversation named, which it creates if there is none, and changes nothing
\* else: not the tool calls of that conversation, not any other conversation.
BuildContextAppendsOneUserMessage ==
    [][/\ \A id \in Ids :
            store_calls' = Called("get_full_context", id) =>
                \E user_input \in FewInputs : OneUserMessageAppended(id, user_input)
       /\ \A r \in Reqs :
            req[r].pc = "discover" /\ req'[r].pc = "generate" =>
                OneUserMessageAppended(req[r].conversation_id, req[r].user_input)]_vars

\* A direct get_full_context call has just been made on a conversation that
\* holds tool calls and was full: its oldest message has been evicted.
BuildContextAppendsOneUserMessageWitness ==
    \E id \in DOMAIN conversations :
        /\ store_calls = <<[op |-> "get_full_context", conversation_id |-> id]>>
        /\ conversations[id].tool_calls # <<>>
        /\ Len(appended[id]) > max_history_length
        /\ LastOf(appended[id], 1) = <<Message("user", <<"hi">>)>>
        /\ Len(conversations[id].messages) = max_history_length

HasParsed(family) ==
    /\ parsing.pc \in {"parsed", "parsed_again"}
    /\ parsing.family = family

\* C17 (as amended): for a text that is the JSON object
\* {"response": r, "tool_call": null}, r a string, _parse_llm_response returns
\* "text" = r stripped of its surrounding whitespace and "tool_call" = None,
\* also when r itself holds a fenced block or a brace-delimited object with a
\* tool_call key: strategy 1 answers and the later strategies see nothing.
WrappedObjectShortCircuits ==
    HasParsed("wrapped") =>
        /\ ~parsing.parsed.raised
        /\ DOMAIN parsing.parsed.ret = {Key("text"), Key("tool_call")}
        /\ parsing.parsed.ret[Key("text")] = Str(Strip(parsing.r))
        /\ parsing.parsed.ret[Key("tool_call")] = None

\* The wrapped r is prose followed by an object with a tool call, and the
\* call has returned without one.
WrappedObjectShortCircuitsWitness ==
    /\ HasParsed("wrapped")
    /\ parsing.r = ProseToolJson
    /\ ~parsing.parsed.raised
    /\ parsing.parsed.ret[Key("tool_call")] = None

\* C17, as stated: for a text that is the JSON object
\* {"response": r, "tool_call": null}, the "text" returned is r itself.
WrappedObjectReturnsResponse ==
    HasParsed("wrapped") =>
        /\ ~parsing.parsed.raised
        /\ parsing.parsed.ret[Key("text")] = Str(parsing.r)
        /\ parsing.parsed.ret[Key("tool_call")] = None

\* C18: for a text with exactly one fenced block whose contents are the JSON
\* object {"response": r, "tool_call": {"name": n, "parameters": p}}, whatever
\* stands around the block and whether or not it is tagged json,
\* _parse_llm_response returns "tool_call" = {"name": n, "parameters": p}.
FencedObjectGivesToolCall ==
    HasParsed("fenced") =>
        /\ ~parsing.parsed.raised
        /\ Key("tool_call") \in DOMAIN parsing.parsed.ret
        /\ parsing.parsed.ret[Key("tool_call")] = parsing.tool_call

\* The block stands between prose with braces of its own and a closing
\* brace, its parameter string holds an apostrophe, and the call returned
\* the tool call.
FencedObjectGivesToolCallWitness ==
    /\ HasParsed("fenced")
    /\ parsing.text[1] = "Use"
    /\ parsing.text[Len(parsing.text)] = "}"
    /\ parsing.tool_call.m[Key("parameters")].m = DictPut(<<>>, Key("text"), Str(<<"it", SQUOTE, "s">>))
    /\ ~parsing.parsed.raised
    /\ parsing.parsed.ret[Key("tool_call")] = parsing.tool_call

\* A text with nothing JSON-like in it: no brace, and no fenced block whose
\* contents are a JSON value.
FencedValue(text) ==
    /\ FenceSearch(text).found
    /\ JsonLoads(FenceSearch(text).group1).ok
NoJsonLike(text) == ~HasBraces(text) /\ ~FencedValue(text)

\* C19: for a text with no JSON-like substring, _parse_llm_response returns
\* "text" = the text stripped of its surrounding whitespace and
\* "tool_call" = None, and called on the text returned it returns that same
\* text again.
PlainTextIsStrippedOnce ==
    HasParsed("raw") /\ NoJsonLike(parsing.text) =>
        /\ ~parsing.parsed.raised
        /\ DOMAIN parsing.parsed.ret = {Key("text"), Key("tool_call")}
        /\ parsing.parsed.ret[Key("text")] = Str(Strip(parsing.text))
        /\ parsing.parsed.ret[Key("tool_call")] = None
        /\ parsing.pc = "parsed_again" =>
              /\ ~parsing.again.raised
              /\ parsing.again.ret = parsing.parsed.ret

\* A word between two spaces was given, the word alone was returned, and
\* returned again for the word.
PlainTextIsStrippedOnceWitness ==
    /\ parsing.pc = "parsed_again"
    /\ parsing.family = "raw"
    /\ parsing.text = <<" ", "Hi", " ">>
    /\ ~parsing.parsed.raised
    /\ parsing.parsed.ret[Key("text")] = Str(<<"Hi">>)
    /\ ~parsing.again.raised
    /\ parsing.again.ret[Key("text")] = Str(<<"Hi">>)

\* C20: for a text made of prose followed by a JSON object with a tool_call
\* member whose value is {"name": n, "parameters": p}, p an object itself,
\* _parse_llm_response returns a "tool_call" that is not None and has that
\* name and those parameters, whatever characters the string values of p hold.
ProseObjectGivesToolCall ==
    HasParsed("prose") =>
        /\ ~parsing.parsed.raised
        /\ Key("tool_call") \in DOMAIN parsing.parsed.ret
        /\ parsing.parsed.ret[Key("tool_call")] # None
        /\ parsing.parsed.ret[Key("tool_call")] = parsing.tool_call

\* C21: _parse_llm_response is total: for every text, objects whose
\* "response" is null or no string, fenced blocks holding a JSON value that is
\* no object and fenced objects lacking "response" or "tool_call" included, it
\* returns without raising a dictionary with both a "text" and a "tool_call".
InterpretIsTotal ==
    parsing.pc \in {"parsed", "parsed_again"} =>
        /\ ~parsing.parsed.raised
        /\ {Key("text"), Key("tool_call")} \subseteq DOMAIN parsing.parsed.ret

\* What strategies 1 to 3 make of the text given.
WholeTextIsObject(text) == JsonLoads(text).ok /\ IsDict(JsonLoads(text).v)
ScanOf(text) == BraceScan(text, BraceMatches(text, 1), 1)
ScanSelects(text) ==
    \E n \in DOMAIN BraceMatches(text, 1) : IsCandidate(JsonLoads(BraceMatches(text, 1)[n]))

\* C22 (as amended): the strategies are attempted in the order 1, 2, 3, 4 and
\* the first that succeeds ends the call: a whole text that parses to an
\* object attempts strategy 1 only; otherwise a fenced block that parses
\* attempts 1 and 2 only; otherwise the brace scan is attempted, and strategy 4
\* after it exactly when the tool call the scan left is null or empty (no
\* candidate selected, or a candidate selected whose tool_call is null, {},
\* "" or 0) and the text the scan left, a string, has both braces.
StrategiesInOrder ==
    parsing.pc \in {"parsed", "parsed_again"} =>
        IF WholeTextIsObject(parsing.text) THEN parsing.parsed.tried = <<1>>
        ELSE IF FencedValue(parsing.text) THEN parsing.parsed.tried = <<1, 2>>
        ELSE IF /\ IsStr(ScanOf(parsing.text).text)
                /\ ~Truthy(ScanOf(parsing.text).tool_call)
                /\ Contains(ScanOf(parsing.text).text.s, "{")
                /\ Contains(ScanOf(parsing.text).text.s, "}")
        THEN parsing.parsed.tried = <<1, 2, 3, 4>>
        ELSE parsing.parsed.tried = <<1, 2, 3>>

\* The scan selected a candidate whose tool_call is null, and strategy 4 was
\* attempted after it and found the tool call of a later, deeper object.
StrategiesInOrderWitness ==
    /\ HasParsed("scan")
    /\ ScanSelects(parsing.text)
    /\ parsing.parsed.tried = <<1, 2, 3, 4>>
    /\ ~parsing.parsed.raised
    /\ Truthy(parsing.parsed.ret[Key("tool_call")])

\* C22, as stated: strategy 4 is attempted only if the brace scan selected no
\* candidate, a candidate being a match that parses and has a tool_call key
\* whatever its value, and the text has both braces.
LastResortOnlyWithoutCandidate ==
    parsing.pc \in {"parsed", "parsed_again"} =>
        /\ WholeTextIsObject(parsing.text) => parsing.parsed.tried = <<1>>
        /\ ~WholeTextIsObject(parsing.text) /\ FencedValue(parsing.text) =>
               parsing.parsed.tried = <<1, 2>>
        /\ (\E n \in DOMAIN parsing.parsed.tried : parsing.parsed.tried[n] = 4) =>
               /\ ~ScanSelects(parsing.text)
               /\ Contains(parsing.text, "{")
               /\ Contains(parsing.text, "}")

\* Every conversation but that of id is after the step what it was before.
OthersUnchanged(id) ==
    \A other \in (DOMAIN conversations \cup DOMAIN conversations') \ {id} :
        /\ other \in DOMAIN conversations
        /\ other \in DOMAIN conversations'
        /\ conversations'[other] = conversations[other]

\* A request has appended a user message to the conversation of id.
RequestSaidOn(id) ==
    \E r \in Reqs : req[r].conversation_id = id /\ req[r].said # <<>>

\* C23 (as amended): create_conversation(id) leaves under id an empty
\* conversation whether or not there was one: called on an absent id it
\* creates it, called on an id that has a conversation it replaces that
\* conversation, its messages and tool calls lost.  No other conversation
\* changes.
CreateGivesEmptyConversation ==
    [][\A id \in Ids :
          store_calls' = Called("create_conversation", id) =>
              /\ DOMAIN conversations' = DOMAIN conversations \cup {id}
              /\ conversations'[id] = ConversationContext
              /\ OthersUnchanged(id)]_vars

\* create_conversation has been called on the id of a conversation to which a
\* request had appended, and the conversation is empty.
CreateGivesEmptyConversationWitness ==
    \E id \in DOMAIN conversations :
        /\ store_calls = <<[op |-> "create_conversation", conversation_id |-> id]>>
        /\ RequestSaidOn(id)
        /\ conversations[id] = ConversationContext

\* C23, as stated: create_conversation(id) on an id that has a conversation
\* leaves its messages and tool calls unchanged, and on an absent id creates
\* an empty conversation.
CreateIsCreateIfAbsent ==
    [][\A id \in Ids :
          store_calls' = Called("create_conversation", id) =>
              /\ id \in DOMAIN conversations'
              /\ conversations'[id] =
                     IF id \in DOMAIN conversations THEN conversations[id]
                     ELSE ConversationContext]_vars

\* C24: clear_conversation(id) on an id that has a conversation leaves id in
\* the store with no messages and no tool calls and every other conversation
\* as it was; on an absent id it leaves the whole store as it was and creates
\* nothing.
ClearEmptiesAndKeepsKey ==
    [][\A id \in Ids :
          store_calls' = Called("clear_conversation", id) =>
              IF id \in DOMAIN conversations
              THEN /\ DOMAIN conversations' = DOMAIN conversations
                   /\ conversations'[id] = ConversationContext
                   /\ OthersUnchanged(id)
              ELSE conversations' = conversations]_vars

\* clear_conversation has been called on the id of a conversation to which a
\* request had appended: the id is there with an empty conversation, beside
\* another conversation that holds its message.
ClearEmptiesAndKeepsKeyWitness ==
    \E id \in DOMAIN conversations :
        /\ store_calls = <<[op |-> "clear_conversation", conversation_id |-> id]>>
        /\ RequestSaidOn(id)
        /\ conversations[id] = ConversationContext
        /\ \E other \in DOMAIN conversations \ {id} : conversations[other].messages # <<>>

\* C25: delete_conversation(id) on an id that has a conversation removes that
\* key and no other and leaves every other conversation as it was; on an
\* absent id it leaves the store as it was.
DeleteRemovesOneKey ==
    [][\A id \in Ids :
          DeleteConversation(id) =>
              IF id \in DOMAIN conversations
              THEN /\ DOMAIN conversations' = DOMAIN conversations \ {id}
                   /\ OthersUnchanged(id)
              ELSE conversations' = conversations]_vars

\* delete_conversation has been called on the id of a conversation to which a
\* request had appended: the id is gone and another conversation still holds
\* its message.
DeleteRemovesOneKeyWitness ==
    \E id \in Ids :
        /\ Len(store_calls) = 1
        /\ store_calls[1].op = "delete_conversation"
        /\ store_calls[1].conversation_id = id
        /\ RequestSaidOn(id)
        /\ id \notin DOMAIN conversations
        /\ \E other \in DOMAIN conversations : conversations[other].messages # <<>>

\* C26: DELETE /conversation/{id} and GET /conversation/{id} called for an id
\* that has no conversation both answer not found, never success, and
\* neither creates the conversation.
UnknownIdIsNotFound ==
    [][\A id \in Ids :
          (DeleteConversation(id) \/ GetConversation(id)) /\ id \notin DOMAIN conversations =>
              /\ store_calls'[Len(store_calls')].reply.status_code = 404
              /\ id \notin DOMAIN conversations']_vars

\* A request that has arrived and has neither returned nor raised.
InFlight(r) == req[r].pc \notin {"idle", "done", "failed"}

\* C27: a request in flight never waits for another request: its next stretch
\* can always run, whatever the other requests and the conversations are, and
\* when its awaited calls return or fail it ends with a response or a failure.
RequestsNeverWait ==
    /\ [](\A r \in Reqs : InFlight(r) => ENABLED RequestStep(r))
    /\ \A r \in Reqs : InFlight(r) ~> req[r].pc \in {"done", "failed"}

\* One request has ended on a conversation while another request on the same
\* conversation is still at its discovery call.
RequestsNeverWaitWitness ==
    \E r, o \in Reqs :
        /\ r # o
        /\ req[r].conversation_id = req[o].conversation_id
        /\ req[r].pc = "done"
        /\ req[o].pc = "discover"

\* Request r has read the history for its initial generation call.
HasRead(r) == req[r].context # None
HistoryRead(r) == req[r].context.conversation_history

BothReadBeforeAppending ==
    \E r, o \in Reqs :
        /\ r # o
        /\ req[r].conversation_id = req[o].conversation_id
        /\ HasRead(r) /\ HasRead(o)
        /\ HistoryRead(r) = HistoryRead(o)
        /\ HistoryRead(r) = req[r].before.messages
        /\ HistoryRead(o) = req[o].before.messages

StageOrder ==
    <<"DISCOVER_TOOLS", "BUILD_CONTEXT", "GENERATE_INITIAL", "INTERPRET",
      "EXECUTE_TOOL", "RECORD", "FOLLOW_UP", "FINALIZE">>
StageRank(stage) == CHOOSE i \in DOMAIN StageOrder : StageOrder[i] = stage

\* The stages of request r go forward only: each is later in the order than
\* the one before it, none of the first four is skipped, RECORD comes right
\* after EXECUTE_TOOL and FOLLOW_UP right after RECORD.
StagesGoForward(r) ==
    \E stages \in {req[r].stages} :
        /\ \A i \in DOMAIN stages : \E k \in DOMAIN StageOrder : StageOrder[k] = stages[i]
        /\ \A i \in 1..(Len(stages) - 1) : StageRank(stages[i]) < StageRank(stages[i + 1])
        /\ \A i \in DOMAIN stages : i <= 4 => stages[i] = StageOrder[i]
        /\ \A i \in DOMAIN stages :
              /\ stages[i] = "EXECUTE_TOOL" => stages[i - 1] = "INTERPRET"
              /\ stages[i] = "RECORD" => stages[i - 1] = "EXECUTE_TOOL"
              /\ stages[i] = "FOLLOW_UP" => stages[i - 1] = "RECORD"

\* The calls request r has made: one discovery call once it has arrived, at
\* most two generation calls, at most one execution call.
CallsAreBounded(r) ==
    /\ Count(req[r].calls, "discovery") = (IF req[r].pc = "idle" THEN 0 ELSE 1)
    /\ Count(req[r].calls, "generation") + Count(req[r].calls, "follow_up_generation") <= 2
    /\ Count(req[r].calls, "generation") <= 1
    /\ Count(req[r].calls, "execution") <= 1

\* C29: the stages of a request are visited in the order DISCOVER_TOOLS,
\* BUILD_CONTEXT, GENERATE_INITIAL, INTERPRET, EXECUTE_TOOL, RECORD, FOLLOW_UP,
\* FINALIZE, none twice and none of the first four skipped; it makes one
\* discovery call, at most two generation calls and at most one execution
\* call; a request that returns a response has FINALIZE as its last stage; and
\* every request ends, after which it takes no further step.
StagesAreVisitedInOrder ==
    /\ [](\A r \in Reqs :
            /\ StagesGoForward(r)
            /\ CallsAreBounded(r)
            /\ req[r].pc = "done" =>
                  req[r].stages[Len(req[r].stages)] = "FINALIZE")
    /\ \A r \in Reqs : InFlight(r) ~> req[r].pc \in {"done", "failed"}
    /\ [][\A r \in Reqs : req[r].pc \in {"done", "failed"} => req'[r] = req[r]]_vars

\* A request has passed all eight stages and returned a response.
StagesAreVisitedInOrderWitness ==
    \E r \in Reqs : req[r].pc = "done" /\ req[r].stages = StageOrder

\* The tool call interpreted from the follow-up generation of a request.
FollowUpIntent(rq) == ToolCallOf(rq.parsed_follow_up.m)

\* C30: when the follow-up generation is interpreted with a tool call, the
\* step makes no call and appends no tool call record, and the envelope
\* returned has the name and the parameters of the tool call of the initial
\* generation and the outcome of its execution.
FollowUpToolCallIsDiscarded ==
    [][\A r \in Reqs :
          (/\ req[r].pc = "follow_up"
           /\ req'[r].parsed_follow_up # None
           /\ Truthy(FollowUpIntent(req'[r]))) =>
              /\ req'[r].pc = "done"
              /\ req'[r].calls = req[r].calls
              /\ Count(req'[r].calls, "execution") = 1
              /\ req'[r].recorded = req[r].recorded
              /\ ToolCallsOf(conversations', req[r].conversation_id)
                    = ToolCallsOf(conversations, req[r].conversation_id)
              /\ req'[r].response.tool_used = ToolNameOf(InitialIntent(req[r]))
              /\ req'[r].response.tool_parameters = ToolParametersOf(InitialIntent(req[r]))
              /\ req'[r].response.tool_result = req[r].tool_result]_vars

\* A request has returned after a follow-up generation that named another tool
\* than the initial generation did.
FollowUpToolCallIsDiscardedWitness ==
    \E r \in Reqs :
        /\ req[r].pc = "done"
        /\ req[r].parsed_follow_up # None
        /\ Truthy(FollowUpIntent(req[r]))
        /\ ToolNameOf(FollowUpIntent(req[r])) = Str(<<"count_words">>)
        /\ req[r].response.tool_used = Str(<<"format_text">>)
        /\ Len(req[r].recorded) = 2

\* The messages a request that returned must have appended: the user input,
\* the user input again if a follow-up generation call was made, the reply.
MessagesExpected(rq) ==
    IF Count(rq.calls, "follow_up_generation") = 1
    THEN <<Message("user", rq.user_input), Message("user", rq.user_input),
           Message("assistant", rq.response.response.s)>>
    ELSE <<Message("user", rq.user_input),
           Message("assistant", rq.response.response.s)>>

\* C31: with no clear and no delete under it and the cap not exceeded, the
\* messages of the conversation of a request that returned are those it held
\* when the request arrived followed by user(input), user(input),
\* assistant(reply) if a follow-up generation call was made, and by
\* user(input), assistant(reply) if none was.
FollowUpDuplicatesUserInput ==
    \A r \in Reqs :
        (/\ req[r].pc = "done"
         /\ store_calls = <<>>
         /\ Len(req[r].before.messages) + Len(req[r].said) <= max_history_length) =>
            /\ req[r].said = MessagesExpected(req[r])
            /\ conversations[req[r].conversation_id].messages
                  = req[r].before.messages \o MessagesExpected(req[r])

\* A request with a follow-up has returned: its conversation holds the user
\* input twice and then the reply.
FollowUpDuplicatesUserInputWitness ==
    \E r \in Reqs :
        /\ req[r].pc = "done"
        /\ store_calls = <<>>
        /\ Count(req[r].calls, "follow_up_generation") = 1
        /\ Len(conversations[req[r].conversation_id].messages) = 3
        /\ conversations[req[r].conversation_id].messages[1]
              = Message("user", <<"format", " ", "hello">>)
        /\ conversations[req[r].conversation_id].messages[2]
              = conversations[req[r].conversation_id].messages[1]

\* No assistant message among those request r appended.
NoReplyYet(rq) == \A i \in DOMAIN rq.said : rq.said[i].role # "assistant"

\* C32: in a request that executes a tool, the step that issues the execution
\* call has appended the provisional record and nothing else; the step in
\* which the execution call returns appends the outcome record, and the
\* follow-up context it then builds tells of that record before the follow-up
\* generation call is issued; the assistant message is appended in the last
\* step, after the records, the calls and the user messages.
ToolEventsInOrder ==
    [][\A r \in Reqs : \E id \in {req[r].conversation_id} :
          /\ (req[r].pc = "generate" /\ req'[r].pc = "execute") =>
                /\ ToolCallsOf(conversations', id)
                      = Append(ToolCallsOf(conversations, id), ProvisionalRecord(req'[r]))
                /\ req'[r].calls = Append(req[r].calls, "execution")
                /\ req'[r].tool_result = None
                /\ req'[r].said = req[r].said
          /\ (req[r].pc = "execute" /\ req'[r].pc # "execute") =>
                /\ req'[r].tool_result # None
                /\ ToolCallsOf(conversations', id)
                      = Append(ToolCallsOf(conversations, id), OutcomeRecord(req'[r]))
                /\ req'[r].pc = "follow_up" =>
                      /\ req'[r].updated_context.tool_context
                            = ToolCallsOf(conversations', id)
                      /\ req'[r].updated_context.conversation_history
                            = conversations'[id].messages
                      /\ req'[r].calls = Append(req[r].calls, "follow_up_generation")
                      /\ req'[r].said = Append(req[r].said, Message("user", req[r].user_input))
                /\ req'[r].pc # "follow_up" => req'[r].calls = req[r].calls
          /\ (req[r].pc = "follow_up" /\ req'[r].pc # "follow_up") =>
                /\ ToolCallsOf(conversations', id) = ToolCallsOf(conversations, id)
                /\ req'[r].calls = req[r].calls
          /\ req'[r].pc \in {"idle", "discover", "generate", "execute", "follow_up"} =>
                NoReplyYet(req'[r])
          /\ (NoReplyYet(req[r]) /\ ~NoReplyYet(req'[r])) =>
                /\ req'[r].pc = "done"
                /\ req'[r].said = Append(req[r].said,
                                         Message("assistant", req'[r].response.response.s))
                /\ Truthy(req[r].tool_call) => Len(req'[r].recorded) = 2]_vars

\* A request has returned after a tool call with a follow-up: its follow-up
\* context told of the provisional record and of the outcome record.
ToolEventsInOrderWitness ==
    \E r \in Reqs :
        /\ req[r].pc = "done"
        /\ req[r].updated_context # None
        /\ req[r].updated_context.tool_context
              = <<ProvisionalRecord(req[r]), OutcomeRecord(req[r])>>
        /\ req[r].said[Len(req[r].said)].role = "assistant"

\* The generation outputs the connector handed on: those of the requests, and
\* the one of a text given on its own.  Each is the raw text and what was
\* handed to the interpreter.
Handed(raw, llm_response) == [raw |-> raw, llm_response |-> llm_response]
HandedOn ==
    {Handed(req[r].generated.s, req[r].llm_response.s) :
        r \in {q \in Reqs : req[q].llm_response # None}}
    \cup {Handed(req[r].follow_up_generated.s, req[r].follow_up_response.s) :
            r \in {q \in Reqs : req[q].follow_up_response # None}}
    \cup {Handed(p.text, p.handed.s) : p \in {q \in {parsing} : q.pc = "generated"}}
IsBraced(t) == StartsWith(t, "{") /\ EndsWith(t, "}")

\* C33: every generation output handed to the interpreter starts with "{" and
\* ends with "}": a raw text that does so is handed on unchanged, any other
\* is handed on as a JSON object that json.loads reads back as
\* {"response": raw text, "tool_call": null}.
HandedTextIsBraced ==
    \A h \in HandedOn :
        /\ IsBraced(h.llm_response)
        /\ IsBraced(h.raw) => h.llm_response = h.raw
        /\ ~IsBraced(h.raw) =>
              JsonLoads(h.llm_response)
                  = [ok |-> TRUE,
                     v |-> Dict(DictPut(DictPut(<<>>, Key("response"), Str(h.raw)),
                                        Key("tool_call"), None))]

\* A raw text with quotes in it, starting with a brace and not ending with
\* one, was handed on wrapped.
HandedTextIsBracedWitness ==
    \E h \in HandedOn :
        /\ StartsWith(h.raw, "{") /\ ~EndsWith(h.raw, "}")
        /\ Contains(h.raw, "Q0")
        /\ h.llm_response # h.raw

\* The first balanced-brace object of a text: from the first opening brace to
\* the first position up to which opening and closing braces are as many.
BraceCount(t, a, b, tok) == Cardinality({i \in a..b : t[i] = tok})
BalancedEnds(t) ==
    {e \in FindFrom(t, 1, "{")..Len(t) :
        /\ FindFrom(t, 1, "{") # 0
        /\ BraceCount(t, FindFrom(t, 1, "{"), e, "{")
              = BraceCount(t, FindFrom(t, 1, "{"), e, "}")}
FirstObject(t) ==
    SubSeq(t, FindFrom(t, 1, "{"),
           CHOOSE e \in BalancedEnds(t) : \A x \in BalancedEnds(t) : e <= x)

\* C34: for a body that is no valid JSON generate_response raises nothing: it
\* returns the value of the first balanced-brace object of the body if there
\* is one and json.loads reads it, and otherwise the apology with its "error"
\* member.
MalformedBodyIsTolerated ==
    (parsing.pc = "replied" /\ ~JsonLoads(parsing.text).ok) =>
        /\ ~parsing.result.raised
        /\ parsing.result.ret =
              (IF BalancedEnds(parsing.text) # {} /\ JsonLoads(FirstObject(parsing.text)).ok
               THEN JsonLoads(FirstObject(parsing.text)).v
               ELSE ApologyResponse)
        /\ Key("error") \in DOMAIN ApologyResponse.m

\* A body of prose followed by an object with a nested object and by more:
\* no JSON as a whole, and generate_response returned the object.
MalformedBodyIsToleratedWitness ==
    /\ parsing.pc = "replied"
    /\ ~JsonLoads(parsing.text).ok
    /\ StartsWith(parsing.text, "Hi")
    /\ ~EndsWith(parsing.text, "}")
    /\ parsing.result.ret # ApologyResponse
    /\ Key("tool_call") \in DOMAIN parsing.result.ret.m
    /\ IsDict(parsing.result.ret.m[Key("tool_call")])

\* C35: a generation output that does not both start with "{" and end with
\* "}" is, once normalised, interpreted by strategy 1 alone and without a tool
\* call, whatever fenced block or object with a tool_call key it holds; an
\* output for which a later strategy is attempted starts with "{", ends with
\* "}" and is no JSON that json.loads reads.
UnbracedOutputHasNoToolCall ==
    parsing.pc = "generated" =>
        /\ ~IsBraced(parsing.text) =>
              /\ ~parsing.parsed.raised
              /\ parsing.parsed.tried = <<1>>
              /\ parsing.parsed.ret[Key("tool_call")] = None
        /\ parsing.parsed.tried # <<1>> =>
              /\ IsBraced(parsing.text)
              /\ ~JsonLoads(parsing.text).ok

\* An output with a fenced block holding a tool call, text before and after
\* it, was normalised and interpreted: without a tool call.
UnbracedOutputHasNoToolCallWitness ==
    /\ parsing.pc = "generated"
    /\ parsing.family = "fenced"
    /\ parsing.tool_call # None
    /\ ~StartsWith(parsing.text, "{") /\ ~EndsWith(parsing.text, "}")
    /\ parsing.parsed.ret[Key("tool_call")] = None

\* C36: a step of a request on conversation id A, and a store operation or
\* an endpoint called for A, leaves every conversation other than A as it
\* was: present if it was, absent if it was, with the same messages and tool
\* calls; the arrival of a request changes no conversation.
ConversationsAreIsolated ==
    [][/\ \A r \in Reqs :
            req'[r] # req[r] =>
                IF req[r].pc = "idle" THEN conversations' = conversations
                ELSE OthersUnchanged(req[r].conversation_id)
       /\ store_calls' # store_calls =>
            OthersUnchanged(store_calls'[Len(store_calls')].conversation_id)]_vars

\* Two requests have returned on two conversations, one after a tool call,
\* each conversation holding what its request appended.
ConversationsAreIsolatedWitness ==
    \E r, o \in Reqs :
        /\ req[r].pc = "done" /\ req[o].pc = "done"
        /\ req[r].conversation_id # req[o].conversation_id
        /\ store_calls = <<>>
        /\ conversations[req[r].conversation_id].messages = req[r].said
        /\ conversations[req[o].conversation_id].messages = req[o].said
        /\ conversations[req[r].conversation_id].tool_calls = req[r].recorded
        /\ conversations[req[o].conversation_id].tool_calls = <<>>
        /\ Len(req[r].recorded) = 2

\* The elements of s at the positions P, in order.
AtPositions(s, P) ==
    [k \in 1..Cardinality(P) |->
        s[CHOOSE i \in P : Cardinality({j \in P : j <= i}) = k]]

\* s holds the elements of the sequences parts[r] and no others, those of each
\* part in the order of the part.
IsInterleaving(s, parts) ==
    \E owner \in [DOMAIN s -> DOMAIN parts] :
        \A r \in DOMAIN parts : AtPositions(s, {i \in DOMAIN s : owner[i] = r}) = parts[r]

\* What the requests on conversation id appended: messages, and tool calls.
SaidOn(id) == [r \in Reqs |-> IF req[r].conversation_id = id THEN req[r].said ELSE <<>>]
RecordedOn(id) ==
    [r \in Reqs |-> IF req[r].conversation_id = id THEN req[r].recorded ELSE <<>>]
AllEndedOn(id) ==
    \A r \in Reqs : req[r].conversation_id = id => req[r].pc \in {"done", "failed"}

\* C37: with no store operation called beside the requests and no more
\* messages appended to a conversation than the cap, once the requests on it
\* have ended its messages are those the requests appended, all of them, each
\* request's in its own order, and its tool calls are the records the
\* requests appended, two for each execution call, each request's in its own
\* order.
NoAppendIsLost ==
    \A id \in DOMAIN conversations :
        (/\ store_calls = <<>>
         /\ AllEndedOn(id)
         /\ Len(appended[id]) <= max_history_length) =>
            /\ IsInterleaving(conversations[id].messages, SaidOn(id))
            /\ IsInterleaving(conversations[id].tool_calls, RecordedOn(id))
            /\ \A r \in Reqs :
                  req[r].conversation_id = id =>
                      Len(req[r].recorded) = 2 * Count(req[r].calls, "execution")

\* Two requests on one conversation have returned, each after a tool call, the
\* second having built its context before the first appended its reply: the
\* conversation holds the four messages and the four records.
NoAppendIsLostWitness ==
    \E id \in DOMAIN conversations :
        /\ store_calls = <<>>
        /\ \A r \in Reqs : req[r].conversation_id = id /\ req[r].pc = "done"
                            /\ Len(req[r].recorded) = 2
        /\ Len(conversations[id].messages) = 4
        /\ Len(conversations[id].tool_calls) = 4
        /\ conversations[id].messages[1].role = "user"
        /\ conversations[id].messages[2].role = "user"

IsSuffix(s, t) == Len(s) <= Len(t) /\ SubSeq(t, Len(t) - Len(s) + 1, Len(t)) = s

\* The conversation of request r was deleted after r had built its context
\* and before r appended its last message.
DeletedInFlight(r) ==
    /\ \E i \in DOMAIN store_calls :
          /\ store_calls[i].op = "delete_conversation"
          /\ store_calls[i].conversation_id = req[r].conversation_id
    /\ appended[req[r].conversation_id] # <<>>
    /\ Len(appended[req[r].conversation_id]) < Len(req[r].said)

\* C38: when the conversation of a request is deleted after the request built
\* its context, the request goes on to its end, and when it has returned the
\* id is in the store again: its messages are the ones the request appended
\* after the delete, the assistant message last, and its tool calls the
\* records the request appended after the delete.
DeletedConversationIsRecreated ==
    /\ [](\A r \in Reqs :
            (req[r].pc = "done" /\ DeletedInFlight(r)) =>
                \E id \in {req[r].conversation_id} :
                    /\ id \in DOMAIN conversations
                    /\ conversations[id].messages = appended[id]
                    /\ IsSuffix(conversations[id].messages, req[r].said)
                    /\ conversations[id].messages[Len(conversations[id].messages)]
                          = Message("assistant", req[r].response.response.s)
                    /\ IsSuffix(conversations[id].tool_calls, req[r].recorded))
    /\ \A r \in Reqs :
          (InFlight(r) /\ req[r].conversation_id \notin DOMAIN conversations)
              ~> req[r].pc \in {"done", "failed"}

\* A request has returned whose conversation was deleted while its execution
\* call was pending: the conversation holds the outcome record alone and the
\* messages appended after the delete.
DeletedConversationIsRecreatedWitness ==
    \E r \in Reqs :
        /\ req[r].pc = "done"
        /\ DeletedInFlight(r)
        /\ Len(req[r].recorded) = 2
        /\ conversations[req[r].conversation_id].tool_calls = <<req[r].recorded[2]>>
        /\ Len(conversations[req[r].conversation_id].messages) = 2

\* The initial response of request r was interpreted with a tool_call that is
\* None (absent or null) or an empty dictionary.
NullOrEmptyToolCall(r) ==
    /\ req[r].parsed_response # None
    /\ DictGet(req[r].parsed_response.m, Key("tool_call"), None) \in {None, EmptyDict}

\* C39: a request whose interpreted tool_call is null or an empty object goes
\* straight to its end: it appends no tool call record, makes no execution
\* call and no follow-up generation call, and the envelope it returns has
\* tool_used, tool_parameters and tool_result all None.
NullOrEmptyToolCallIsNoToolCall ==
    \A r \in Reqs :
        NullOrEmptyToolCall(r) =>
            /\ req[r].pc \in {"done", "failed"}
            /\ req[r].recorded = <<>>
            /\ Count(req[r].calls, "execution") = 0
            /\ Count(req[r].calls, "follow_up_generation") = 0
            /\ req[r].tool_result = None
            /\ req[r].pc = "done" =>
                  /\ req[r].response.tool_used = None
                  /\ req[r].response.tool_parameters = None
                  /\ req[r].response.tool_result = None

\* A request has returned whose interpreted tool_call is an empty dictionary.
NullOrEmptyToolCallIsNoToolCallWitness ==
    \E r \in Reqs :
        /\ req[r].pc = "done"
        /\ req[r].parsed_response # None
        /\ DictGet(req[r].parsed_response.m, Key("tool_call"), None) = EmptyDict
        /\ req[r].response.tool_used = None

====
